---------------------------- MODULE Spec2Model ----------------------------
(* Model of the data engine of SimplifyTable: FetchData.fetch with its     *)
(* shared DataCache, NetworkFetcher, ResponseParser, and the query         *)
(* function StaticDataFetcher.filterStaticData.                            *)
(*                                                                         *)
(* JavaScript strings are sequences of one-character strings, so that      *)
(* String(), toLowerCase(), includes() and parseInt() are computed and     *)
(* not assumed.  JavaScript values are tagged records.                     *)
EXTENDS Integers, Sequences, FiniteSets, TLC

VARIABLES
  DataCache_instance,  \* DataCache.instance: 0 while unset, else the index of a cache object
  caches,      \* the DataCache objects ever constructed: each one's `cache` field
  fetchers,    \* the FetchData objects ever constructed
  calls,       \* the activations of FetchData.fetch, in the order they were started
  q_data,      \* filterStaticData: the `data` argument
  q_params,    \* filterStaticData: the `params` argument
  q_result,    \* filterStaticData: the returned object, or NoResult
  q_pc,        \* "ready" before the call, "done" after it, "off" when unused
  csv_response,  \* ResponseParser.parse: the `response` argument
  csv_parsed,    \* ResponseParser.parse: what it returned or threw, or NoResult
  table,       \* the SimplifyTable object
  pager,       \* its Pagination object
  pending,     \* the getData calls of the table that have not completed
  paginator,   \* a Paginator object
  paginated,   \* Paginator.paginate: the returned object, or NoResult
  paginator_args,  \* the params and optionalParams the Paginator was constructed with
  renderer,    \* a PaginationRenderer: its currentPage and totalPages
  planned      \* getPaginationButtons: the returned array (buttons), or NoResult

pvars == <<DataCache_instance, caches, fetchers, calls>>

qvars == <<q_data, q_params, q_result, q_pc>>

cvars == <<csv_response, csv_parsed>>

gvars == <<table, pager, pending>>

bvars == <<paginator, paginated, paginator_args, renderer, planned>>

vars == <<DataCache_instance, caches, fetchers, calls, q_data, q_params, q_result, q_pc,
          csv_response, csv_parsed, table, pager, pending, paginator, paginated,
          paginator_args, renderer, planned>>

-----------------------------------------------------------------------------
(* Bounds of the model *)

MaxRows == 2        \* longest exhaustively enumerated dataset
MaxExtra == 1       \* long datasets have DefaultLimit+1 .. DefaultLimit+MaxExtra rows
MaxPage == 2        \* largest page / limit number a query carries
MaxCalls == 2       \* FetchData.fetch calls started
MaxRepeat == 4      \* FetchData.fetch calls of one table querying again and again
MaxCsvLen == 6      \* characters of a CSV body after its header line
MaxRecords == 5     \* records of the dataset behind a paginated table
MaxPending == 2     \* getData calls of a table in flight at once
MaxCount == 10      \* results handed to a Paginator
MaxTotalPages == 10 \* pages of a PaginationRenderer whose buttons are planned

(* Program constants *)

DefaultPage == 1
DefaultLimit == 10

-----------------------------------------------------------------------------
(* JavaScript values *)

Undefined == [t |-> "undefined"]
NaN == [t |-> "nan"]
Num(n) == [t |-> "num", n |-> n]
Str(s) == [t |-> "str", s |-> s]
Bool(b) == [t |-> "bool", b |-> b]

Digits == <<"0", "1", "2", "3", "4", "5", "6", "7", "8", "9">>
UpperCase == <<"A", "B", "C", "D", "E", "F", "G", "H", "I", "J", "K", "L", "M",
               "N", "O", "P", "Q", "R", "S", "T", "U", "V", "W", "X", "Y", "Z">>
LowerCase == <<"a", "b", "c", "d", "e", "f", "g", "h", "i", "j", "k", "l", "m",
               "n", "o", "p", "q", "r", "s", "t", "u", "v", "w", "x", "y", "z">>

IndexOf(seq, c) ==
  IF \E i \in 1..Len(seq) : seq[i] = c
  THEN CHOOSE i \in 1..Len(seq) : seq[i] = c
  ELSE 0

\* Number::toString for an integer: decimal digits, most significant first.
RECURSIVE NatToString(_)
NatToString(n) ==
  IF n < 10 THEN <<Digits[n + 1]>>
  ELSE Append(NatToString(n \div 10), Digits[(n % 10) + 1])

IntToString(n) == IF n < 0 THEN <<"-">> \o NatToString(0 - n) ELSE NatToString(n)

\* String(value)
String(v) ==
  CASE v.t = "str" -> v.s
    [] v.t = "num" -> IntToString(v.n)
    [] v.t = "nan" -> <<"N", "a", "N">>
    [] v.t = "bool" -> IF v.b THEN <<"t", "r", "u", "e">> ELSE <<"f", "a", "l", "s", "e">>
    [] v.t = "null" -> <<"n", "u", "l", "l">>
    [] v.t = "undefined" -> <<"u", "n", "d", "e", "f", "i", "n", "e", "d">>

\* String.prototype.toLowerCase
toLowerCase(s) ==
  [i \in 1..Len(s) |->
     IF IndexOf(UpperCase, s[i]) # 0 THEN LowerCase[IndexOf(UpperCase, s[i])] ELSE s[i]]

\* String.prototype.includes
includes(s, sub) ==
  \E i \in 0..(Len(s) - Len(sub)) : SubSeq(s, i + 1, i + Len(sub)) = sub

\* ToBoolean: the truthiness test of `if (x)` and `x ? a : b`.
Truthy(v) ==
  CASE v.t = "undefined" -> FALSE
    [] v.t = "null" -> FALSE
    [] v.t = "nan" -> FALSE
    [] v.t = "bool" -> v.b
    [] v.t = "num" -> v.n # 0
    [] v.t = "str" -> v.s # <<>>
    [] OTHER -> TRUE

IsWhite(c) == c = " " \/ c = "\t" \/ c = "\n" \/ c = "\r"

RECURSIVE SkipWhite(_)
SkipWhite(s) == IF s # <<>> /\ IsWhite(Head(s)) THEN SkipWhite(Tail(s)) ELSE s

\* The value of the longest prefix of decimal digits of s, as <<value, length>>.
RECURSIVE DigitPrefix(_, _, _)
DigitPrefix(s, acc, n) ==
  IF s # <<>> /\ IndexOf(Digits, Head(s)) # 0
  THEN DigitPrefix(Tail(s), acc * 10 + (IndexOf(Digits, Head(s)) - 1), n + 1)
  ELSE <<acc, n>>

\* parseInt(value) with no radix: String(value), leading white space skipped, an
\* optional sign, then the longest run of decimal digits; NaN when there is none.
parseInt(v) ==
  LET s == SkipWhite(String(v))
      neg == s # <<>> /\ Head(s) = "-"
      body == IF s # <<>> /\ (Head(s) = "-" \/ Head(s) = "+") THEN Tail(s) ELSE s
      d == DigitPrefix(body, 0, 0)
  IN IF d[2] = 0 THEN NaN ELSE Num(IF neg THEN 0 - d[1] ELSE d[1])

\* Number arithmetic with NaN propagation.
Sub(a, b) == IF a.t = "nan" \/ b.t = "nan" THEN NaN ELSE Num(a.n - b.n)
Mul(a, b) == IF a.t = "nan" \/ b.t = "nan" THEN NaN ELSE Num(a.n * b.n)

Min(a, b) == IF a < b THEN a ELSE b
Max(a, b) == IF a > b THEN a ELSE b

\* Array.prototype.slice(start, end): NaN is 0, a negative index counts from the end.
RelIndex(len, k) ==
  IF k.t = "nan" THEN 0
  ELSE IF k.n < 0 THEN Max(len + k.n, 0) ELSE Min(k.n, len)

slice(arr, start, end) ==
  SubSeq(arr, RelIndex(Len(arr), start) + 1, RelIndex(Len(arr), end))

-----------------------------------------------------------------------------
(* Objects: a record (row) is a function from its property names to values; *)
(* a params object is the sequence of its own properties in key order.      *)

\* item[key]
Item(item, key) == IF key \in DOMAIN item THEN item[key] ELSE Undefined

\* params[key]
Param(params, key) ==
  IF \E i \in 1..Len(params) : params[i].k = key
  THEN params[CHOOSE i \in 1..Len(params) : params[i].k = key].v
  ELSE Undefined

\* A parsed dataset: a JSON array of rows, or an object with a `results` array.
ArrayData(rows) == [t |-> "array", items |-> rows]
ObjectData(rows) == [t |-> "object", results |-> rows]

\* Mutant: the `results` field is ignored, and a value that is not an array
\* has no records.
Records_ArraysOnly(data) == IF data.t = "array" THEN data.items ELSE <<>>

\* Array.isArray(data.results) ? data.results : data
Records(data) == IF data.t = "object" THEN data.results ELSE data.items


-----------------------------------------------------------------------------
(* StaticDataFetcher.filterStaticData *)

\* Mutant: every filter is applied to the whole dataset instead of to the
\* records the earlier filters kept, so only the last filter decides.
RECURSIVE FilterLoop_LastFilterOnly(_, _, _, _)
FilterLoop_LastFilterOnly(all, results, params, i) ==
  IF i > Len(params) THEN results
  ELSE LET key == params[i].k IN
       IF key # "page" /\ key # "limit"
       THEN LET value == toLowerCase(String(Param(params, key)))
                Keep(item) == includes(toLowerCase(String(Item(item, key))), value)
            IN FilterLoop_LastFilterOnly(all, SelectSeq(all, Keep), params, i + 1)
       ELSE FilterLoop_LastFilterOnly(all, results, params, i + 1)

FilterLoop_Mutant(results, params, i) ==
  FilterLoop_LastFilterOnly(results, results, params, i)

\* The forEach over Object.keys(params): every key other than page and limit
\* narrows `results` to the items whose lower-cased String(item[key]) includes
\* the lower-cased String(params[key]).
RECURSIVE FilterLoopFrom(_, _, _)
FilterLoopFrom(results, params, i) ==
  IF i > Len(params) THEN results
  ELSE LET key == params[i].k IN
       IF key # "page" /\ key # "limit"
       THEN LET value == toLowerCase(String(Param(params, key)))
                Keep(item) == includes(toLowerCase(String(Item(item, key))), value)
            IN FilterLoopFrom(SelectSeq(results, Keep), params, i + 1)
       ELSE FilterLoopFrom(results, params, i + 1)

FilterLoop(results, params, i) ==
  FilterLoopFrom(results, params, i)

\* Mutant: the slice ends one record too late.
PageWindow_EndInclusive(results, params) ==
  LET pPage == Param(params, "page")
      pLimit == Param(params, "limit")
      page == IF Truthy(pPage) THEN parseInt(pPage) ELSE Num(DefaultPage)
      limit == IF Truthy(pLimit) THEN parseInt(pLimit) ELSE Num(DefaultLimit)
      start == Mul(Sub(page, Num(1)), limit)
      end == Mul(page, limit)
  IN slice(results, start, IF end.t = "nan" THEN end ELSE Num(end.n + 1))

\* Mutant: an omitted limit falls back to the page default.
PageWindow_WrongDefault(results, params) ==
  LET pPage == Param(params, "page")
      pLimit == Param(params, "limit")
      page == IF Truthy(pPage) THEN parseInt(pPage) ELSE Num(DefaultPage)
      limit == IF Truthy(pLimit) THEN parseInt(pLimit) ELSE Num(DefaultPage)
      start == Mul(Sub(page, Num(1)), limit)
      end == Mul(page, limit)
  IN slice(results, start, end)

\* Mutant: pages are counted from 0, so the slice starts one page too late.
PageWindow_ZeroBased(results, params) ==
  LET pPage == Param(params, "page")
      pLimit == Param(params, "limit")
      page == IF Truthy(pPage) THEN parseInt(pPage) ELSE Num(DefaultPage)
      limit == IF Truthy(pLimit) THEN parseInt(pLimit) ELSE Num(DefaultLimit)
      start == Mul(page, limit)
      end == Mul(Sub(page, Num(0 - 1)), limit)
  IN slice(results, start, end)

\* The body of `if (params.page || params.limit)`: page and limit with their
\* defaults, start and end, and the slice.
PageWindow(results, params) ==
  LET pPage == Param(params, "page")
      pLimit == Param(params, "limit")
      page == IF Truthy(pPage) THEN parseInt(pPage) ELSE Num(DefaultPage)
      limit == IF Truthy(pLimit) THEN parseInt(pLimit) ELSE Num(DefaultLimit)
      start == Mul(Sub(page, Num(1)), limit)
      end == Mul(page, limit)
  IN slice(results, start, end)

\* Mutant: totalResults is counted after slicing.
filterStaticData_CountWindow(data, params) ==
  LET results == FilterLoop(Records(data), params, 1)
      window == IF Truthy(Param(params, "page")) \/ Truthy(Param(params, "limit"))
                THEN PageWindow(results, params) ELSE results
  IN [results |-> window, totalResults |-> Len(window)]

filterStaticData(data, params) ==
  LET results == FilterLoop(Records(data), params, 1)
      totalResults == Len(results)
  IN IF Truthy(Param(params, "page")) \/ Truthy(Param(params, "limit"))
     THEN [results |-> PageWindow(results, params), totalResults |-> totalResults]
     ELSE [results |-> results, totalResults |-> totalResults]

\* Mutant: the string forms compared by the filters are written back into
\* the records.
DataAfter_Coerced(data, params) ==
  LET Filtered(key) == \E i \in 1..Len(params) :
                         params[i].k = key /\ key # "page" /\ key # "limit"
      Coerce(item) == [key \in DOMAIN item |->
                         IF Filtered(key) THEN [t |-> "str", s |-> String(item[key])]
                         ELSE item[key]]
      rows == Records(data)
      coerced == [i \in 1..Len(rows) |-> Coerce(rows[i])]
  IN IF data.t = "object" THEN [t |-> "object", results |-> coerced]
     ELSE [t |-> "array", items |-> coerced]

\* The `data` argument as filterStaticData leaves it: the function assigns
\* only to its local `results`, which filter() and slice() rebind to new
\* arrays; it assigns to no element of the dataset and to no field of a
\* record, and the String() and toLowerCase() values are locals.
DataAfter(data, params) == data

-----------------------------------------------------------------------------
(* CsvFetcher.csvToJson *)

\* Property names are kept as TLA+ strings; the CSV text is characters.  The
\* table spells every column name that a CSV body of the model uses.
Spelling ==
  [n \in {"", "a", "b", "c"} |->
     CASE n = "" -> <<>>
       [] n = "a" -> <<"a">>
       [] n = "b" -> <<"b">>
       [] n = "c" -> <<"c">>]

PropertyName(chars) == CHOOSE n \in DOMAIN Spelling : Spelling[n] = chars

\* String.prototype.split(sep) for a one-character separator
RECURSIVE SplitFrom(_, _, _)
SplitFrom(s, sep, piece) ==
  IF s = <<>> THEN <<piece>>
  ELSE IF Head(s) = sep THEN <<piece>> \o SplitFrom(Tail(s), sep, <<>>)
  ELSE SplitFrom(Tail(s), sep, Append(piece, Head(s)))

split(s, sep) == SplitFrom(s, sep, <<>>)

\* String.prototype.trim
RECURSIVE TrimEnd(_)
TrimEnd(s) ==
  IF s # <<>> /\ IsWhite(s[Len(s)]) THEN TrimEnd(SubSeq(s, 1, Len(s) - 1)) ELSE s

trim(s) == TrimEnd(SkipWhite(s))

\* `.` of a regular expression: any character but a line terminator
IsDot(c) == c # "\n" /\ c # "\r"

\* The lookahead (?=\s*,|\s*$) at position x of line: after the white space
\* from x on comes a comma or the end of the line.
RECURSIVE SkipWhiteAt(_, _)
SkipWhiteAt(line, x) ==
  IF x <= Len(line) /\ IsWhite(line[x]) THEN SkipWhiteAt(line, x + 1) ELSE x

Lookahead(line, x) ==
  LET y == SkipWhiteAt(line, x) IN y > Len(line) \/ line[y] = ","

\* ".*?" at position p: the nearest closing quote after which the lookahead
\* holds; 0 when there is none.
QuotedEnd(line, p) ==
  LET ends == {e \in (p + 1)..Len(line) :
                 /\ line[e] = "\""
                 /\ \A j \in (p + 1)..(e - 1) : IsDot(line[j])
                 /\ Lookahead(line, e + 1)}
  IN IF line[p] = "\"" /\ ends # {}
     THEN CHOOSE e \in ends : \A f \in ends : e <= f
     ELSE 0

\* [^,]+ at position p: the longest run of non-commas after which the
\* lookahead holds; 0 when there is none.
PlainEnd(line, p) ==
  LET ends == {e \in p..Len(line) :
                 /\ \A j \in p..e : line[j] # ","
                 /\ Lookahead(line, e + 1)}
  IN IF ends # {} THEN CHOOSE e \in ends : \A f \in ends : e >= f ELSE 0

\* The end of the match of (".*?"|[^,]+)(?=\s*,|\s*$) at position p, 0 if none:
\* the first alternative is tried first.
MatchEnd(line, p) ==
  IF QuotedEnd(line, p) # 0 THEN QuotedEnd(line, p) ELSE PlainEnd(line, p)

\* line.match(/(".*?"|[^,]+)(?=\s*,|\s*$)/g): the matches from left to right, each
\* search starting where the previous match ended; <<>> stands for null.
RECURSIVE MatchesFrom(_, _)
MatchesFrom(line, pos) ==
  LET starts == {p \in pos..Len(line) : MatchEnd(line, p) # 0}
  IN IF starts = {} THEN <<>>
     ELSE LET p == CHOOSE q \in starts : \A r \in starts : q <= r
              e == MatchEnd(line, p)
          IN <<SubSeq(line, p, e)>> \o MatchesFrom(line, e + 1)

match(line) == MatchesFrom(line, 1)

\* value.replace(/^"(.*)"$/, "$1")
StripQuotes(value) ==
  IF /\ Len(value) >= 2
     /\ value[1] = "\"" /\ value[Len(value)] = "\""
     /\ \A j \in 2..(Len(value) - 1) : IsDot(value[j])
  THEN SubSeq(value, 2, Len(value) - 1)
  ELSE value

Sentinel == <<"-">>

\* while (values.length < headers.length) values.push("-")
Padded(values, n) ==
  [i \in 1..Max(Len(values), n) |-> IF i <= Len(values) THEN values[i] ELSE Sentinel]

\* headers.reduce: obj[header] = values[index] || "-"; a repeated header keeps
\* the value of its last column.
Entry(headers, values) ==
  [h \in {PropertyName(headers[i]) : i \in 1..Len(headers)} |->
     LET index == CHOOSE i \in 1..Len(headers) :
                    /\ PropertyName(headers[i]) = h
                    /\ \A j \in 1..Len(headers) : PropertyName(headers[j]) = h => j <= i
     IN Str(IF values[index] # <<>> THEN values[index] ELSE Sentinel)]

\* The values of one data line: the matches, trimmed and unquoted, then padded.
LineValues(line, n) ==
  LET found == match(line)
  IN Padded([i \in 1..Len(found) |-> StripQuotes(trim(found[i]))], n)

\* The reduce over lines.slice(1): blank lines are skipped; a non-blank line on
\* which match() finds nothing makes .map throw a TypeError.
RECURSIVE DataLines(_, _, _)
DataLines(lines, headers, i) ==
  IF i > Len(lines) THEN [ok |-> TRUE, rows |-> <<>>]
  ELSE LET rest == DataLines(lines, headers, i + 1) IN
       IF trim(lines[i]) = <<>> THEN rest
       ELSE IF match(lines[i]) = <<>> THEN [ok |-> FALSE, rows |-> <<>>]
       ELSE IF ~rest.ok THEN rest
       ELSE [ok |-> TRUE,
             rows |-> <<Entry(headers, LineValues(lines[i], Len(headers)))>> \o rest.rows]

\* CsvFetcher.csvToJson: [ok |-> TRUE, value |-> {results: data}], or a thrown
\* TypeError as [ok |-> FALSE].
csvToJson(csv) ==
  LET lines == split(csv, "\n")
      cells == split(lines[1], ",")
      headers == [i \in 1..Len(cells) |-> trim(cells[i])]
      data == DataLines(lines, headers, 2)
  IN IF data.ok
     THEN [ok |-> TRUE, value |-> ObjectData(data.rows)]
     ELSE [ok |-> FALSE, message |-> "Cannot read properties of null (reading 'map')"]

-----------------------------------------------------------------------------
(* Inputs of the query function *)

Row1 == [a |-> Str(<<"1", "0">>), b |-> Str(<<"A", "b">>)]
Row2 == [a |-> Str(<<"2">>), b |-> Str(<<"b">>)]
Row3 == [a |-> Num(10)]             \* a static row: numeric field, no field b
Rows == {Row1, Row2, Row3}

SeqsUpTo(S, n) == UNION {[1..k -> S] : k \in 0..n}

\* A dataset longer than the default limit: Row1 everywhere, Row2 in third place.
LongRows(n) == [i \in 1..n |-> IF i = 3 THEN Row2 ELSE Row1]

RowSeqs ==
  SeqsUpTo(Rows, MaxRows)
    \cup {LongRows(n) : n \in (DefaultLimit + 1)..(DefaultLimit + MaxExtra)}

Datasets == {ArrayData(r) : r \in RowSeqs} \cup {ObjectData(r) : r \in RowSeqs}

PageValues == {Num(n) : n \in 1..MaxPage} \cup {Str(<<"2">>)}
LimitValues == {Num(n) : n \in 1..MaxPage} \cup {Str(<<"2">>)}
FilterValues(key) ==
  IF key = "a" THEN {Str(<<"1">>), Num(2)} ELSE {Str(<<"B">>), Str(<<"E">>)}

Keys == {"page", "limit", "a", "b"}
FilterKeys == Keys \ {"page", "limit"}

ValuesOf(key) ==
  CASE key = "page" -> PageValues
    [] key = "limit" -> LimitValues
    [] OTHER -> FilterValues(key)

NoResult == [t |-> "none"]

-----------------------------------------------------------------------------
(* DataCache *)

\* this.cache = {}
EmptyCache == [k \in {} |-> Undefined]

\* new DataCache(): the first construction creates the cache object and
\* records it in DataCache.instance; every construction returns that instance.
DataCache_new_PerInstance(instance, cs) ==
  [instance |-> Len(cs) + 1, caches |-> Append(cs, EmptyCache), this |-> Len(cs) + 1]

DataCache_new(instance, cs) ==
  IF instance = 0
  THEN [instance |-> Len(cs) + 1, caches |-> Append(cs, EmptyCache), this |-> Len(cs) + 1]
  ELSE [instance |-> instance, caches |-> cs, this |-> instance]

\* get(url): this.cache[url]
DataCache_get(cache, url) == IF url \in DOMAIN cache THEN cache[url] ELSE Undefined

\* Mutant: only the first dataset of a URL is kept.
DataCache_set_IfAbsent(cache, url, data) ==
  [k \in DOMAIN cache \cup {url} |-> IF k \in DOMAIN cache THEN cache[k] ELSE data]

\* Mutant: the cache holds one entry, the latest.
DataCache_set_Evicting(cache, url, data) == [k \in {url} |-> data]

\* set(url, data): this.cache[url] = data
DataCache_set(cache, url, data) ==
  [k \in DOMAIN cache \cup {url} |-> IF k = url THEN data ELSE cache[k]]

-----------------------------------------------------------------------------
(* NetworkFetcher and ResponseParser *)

\* A URL is a JavaScript string whose characters the code never inspects.
Url(u) == [t |-> "url", s |-> u]

\* typeof value
typeof(v) ==
  CASE v.t \in {"array", "object", "null"} -> "object"
    [] v.t \in {"url", "str"} -> "string"
    [] v.t \in {"num", "nan"} -> "number"
    [] v.t = "bool" -> "boolean"
    [] OTHER -> "undefined"

\* The property key a value is used as: a string is itself, an object is
\* "[object Object]".
PropertyKey(v) == IF v.t = "url" THEN v.s ELSE "[object Object]"

ContentTypeChars ==
  [ct \in {"application/json", "text/csv", "text/csv; charset=utf-8", "text/html"} |->
     CASE ct = "application/json" -> <<"a", "p", "p", "l", "i", "c", "a", "t", "i", "o", "n", "/", "j", "s", "o", "n">>
       [] ct = "text/csv" -> <<"t", "e", "x", "t", "/", "c", "s", "v">>
       [] ct = "text/csv; charset=utf-8" -> <<"t", "e", "x", "t", "/", "c", "s", "v", ";", " ", "c", "h", "a", "r", "s", "e", "t", "=", "u", "t", "f", "-", "8">>
       [] ct = "text/html" -> <<"t", "e", "x", "t", "/", "h", "t", "m", "l">>]

\* response.headers.get("content-type") of a response without that header: null
NoContentType == "null"

\* Response bodies: JSON text that decodes to a value (an array, possibly
\* empty), text that is not JSON, and CSV text.
JsonBody(value) == [t |-> "json", value |-> value]
GarbageBody == [t |-> "garbage"]
TextBody(chars) == [t |-> "text", chars |-> chars]

\* "a,b\n1,\"x,y\"\n2\n"
CsvExample == <<"a", ",", "b", "\n", "1", ",", "\"", "x", ",", "y", "\"", "\n", "2", "\n">>

Response(ok, status, contentType, body) ==
  [ok |-> ok, status |-> status, contentType |-> contentType, body |-> body]

Responses ==
  { Response(TRUE, 200, "application/json", JsonBody(ArrayData(<<Row1, Row2>>))),
    Response(TRUE, 200, "application/json", JsonBody(ArrayData(<<>>))),
    Response(TRUE, 200, "text/csv", TextBody(CsvExample)),
    Response(TRUE, 200, "text/html", TextBody(<<"<", "p", ">">>)),
    Response(TRUE, 200, "application/json", GarbageBody),
    Response(FALSE, 404, "text/html", TextBody(<<>>)) }

\* Statuses for which response.ok is false.
ErrorStatuses == {400, 404, 500, 503}

\* What the global fetch(url) settles to: a response, or a rejection when the
\* network call does not complete.
FetchOutcomes ==
  {[rejected |-> FALSE, response |-> r] : r \in Responses}
    \cup {[rejected |-> TRUE, message |-> <<"Failed to fetch">>]}

Returned(value) == [ok |-> TRUE, value |-> value]
Thrown(message) == [ok |-> FALSE, message |-> message]

\* NetworkFetcher.fetch, once the global fetch has settled
NetworkFetcher_fetch(outcome) ==
  IF outcome.rejected THEN Thrown(outcome.message)
  ELSE IF ~outcome.response.ok
  THEN Thrown(<<"HTTP error! status: ", ToString(outcome.response.status)>>)
  ELSE Returned(outcome.response)

\* response.json()
Response_json(response) ==
  IF response.body.t = "json" THEN Returned(response.body.value)
  ELSE Thrown(<<"Unexpected token in JSON">>)

\* Mutant: an unsupported content type yields an empty dataset.
ResponseParser_parse_Lenient(response) ==
  IF response.contentType = "null"
  THEN [ok |-> FALSE, message |-> <<"Cannot read properties of null (reading 'includes')">>]
  ELSE IF response.contentType = "application/json"
  THEN IF response.body.t = "json" THEN [ok |-> TRUE, value |-> response.body.value]
       ELSE [ok |-> FALSE, message |-> <<"Unexpected token in JSON">>]
  ELSE IF response.contentType \in {"text/csv", "text/csv; charset=utf-8"}
  THEN LET parsed == csvToJson(response.body.chars)
       IN IF parsed.ok THEN [ok |-> TRUE, value |-> parsed.value]
          ELSE [ok |-> FALSE, message |-> <<parsed.message>>]
  ELSE [ok |-> TRUE, value |-> [t |-> "object", results |-> <<>>]]

\* ResponseParser.parse: contentType.includes of a null contentType throws a
\* TypeError.
ResponseParser_parse(response) ==
  IF response.contentType = NoContentType
  THEN Thrown(<<"Cannot read properties of null (reading 'includes')">>)
  ELSE
  LET contentType == ContentTypeChars[response.contentType] IN
  IF includes(contentType, ContentTypeChars["application/json"])
  THEN Response_json(response)
  ELSE IF includes(contentType, ContentTypeChars["text/csv"])
  THEN LET parsed == csvToJson(response.body.chars)
       IN IF parsed.ok THEN Returned(parsed.value) ELSE Thrown(<<parsed.message>>)
  ELSE Thrown(<<"Unsupported content type: ", response.contentType>>)

-----------------------------------------------------------------------------
(* FetchData *)

None == [t |-> "none"]

\* new FetchData(url, hasPagination)
FetchData_new(url, hasPagination, instance, cs) ==
  LET dc == DataCache_new(instance, cs)
  IN [object |-> [url |-> url, hasPagination |-> hasPagination, cache |-> dc.this],
      instance |-> dc.instance,
      caches |-> dc.caches]

\* An activation of FetchData.fetch: the object it runs on, its params, where
\* it is ("awaitFetch", "awaitParse", "done", "failed"), its locals `response`
\* and `data`, what it returned or threw, and how often it called cache.get,
\* fetcher.fetch and parser.parse.
Activation(this, params, pc, response, data, result, error, gets, fetches, parses) ==
  [this |-> this, params |-> params, pc |-> pc, response |-> response, data |-> data,
   result |-> result, error |-> error, gets |-> gets, fetches |-> fetches,
   parses |-> parses]

\* Mutant: the static test never holds.
IsStatic_Never(url) == FALSE

\* typeof this.url === "object"
IsStatic(url) == typeof(url) = "object"

\* Mutant: a query answered from the cache ignores its params.
FetchData_fetch_IgnoresParams(this, obj, params, cache) ==
  IF typeof(obj.url) = "object"
  THEN [this |-> this, params |-> params, pc |-> "done", response |-> [t |-> "none"],
        data |-> [t |-> "none"], result |-> filterStaticData(obj.url, params),
        error |-> [t |-> "none"], gets |-> 0, fetches |-> 0, parses |-> 0]
  ELSE LET cachedData == DataCache_get(cache, PropertyKey(obj.url)) IN
       IF Truthy(cachedData)
       THEN [this |-> this, params |-> params, pc |-> "done", response |-> [t |-> "none"],
             data |-> [t |-> "none"], result |-> filterStaticData(cachedData, <<>>),
             error |-> [t |-> "none"], gets |-> 1, fetches |-> 0, parses |-> 0]
       ELSE [this |-> this, params |-> params, pc |-> "awaitFetch",
             response |-> [t |-> "none"], data |-> [t |-> "none"],
             result |-> [t |-> "none"], error |-> [t |-> "none"],
             gets |-> 1, fetches |-> 1, parses |-> 0]

\* fetch(params) up to its first await (or its return): `this` is the index of
\* the FetchData object, obj the object, cache its DataCache's cache.
FetchData_fetch(this, obj, params, cache) ==
  IF IsStatic(obj.url)
  THEN Activation(this, params, "done", None, None,
                  filterStaticData(obj.url, params), None, 0, 0, 0)
  ELSE LET cachedData == DataCache_get(cache, PropertyKey(obj.url)) IN
       IF Truthy(cachedData)
       THEN Activation(this, params, "done", None, None,
                       filterStaticData(cachedData, params), None, 1, 0, 0)
       ELSE Activation(this, params, "awaitFetch", None, None, None, None, 1, 1, 0)

\* throw new Error(`Error fetching data from ${this.url}: ${error.message}`)
WrappedError(obj, message) ==
  <<"Error fetching data from ", PropertyKey(obj.url), ": ">> \o message

\* Mutant: a failed network call is tried once more.
FetchData_fetch_afterFetch_Retrying(call, obj, fetched) ==
  IF fetched.ok
  THEN [call EXCEPT !.pc = "awaitParse", !.response = fetched.value, !.parses = @ + 1]
  ELSE IF call.fetches < 2
  THEN [call EXCEPT !.fetches = @ + 1]
  ELSE [call EXCEPT !.pc = "failed",
                    !.error = <<"Error fetching data from ", PropertyKey(obj.url), ": ">>
                                \o fetched.message]

\* fetch(params) resumed after `await this.fetcher.fetch(this.url)`: the
\* response is handed to this.parser.parse, or the catch block wraps the error.
FetchData_fetch_afterFetch(call, obj, fetched) ==
  IF fetched.ok
  THEN [call EXCEPT !.pc = "awaitParse", !.response = fetched.value, !.parses = @ + 1]
  ELSE [call EXCEPT !.pc = "failed", !.error = WrappedError(obj, fetched.message)]

\* Mutant: a failed parse leaves an empty dataset in the cache.
FetchData_fetch_afterParse_CachesFailure(call, obj, parsed, cache) ==
  IF parsed.ok
  THEN [call |-> [call EXCEPT !.pc = "done", !.data = parsed.value,
                              !.result = filterStaticData(parsed.value, call.params)],
        cache |-> DataCache_set(cache, PropertyKey(obj.url), parsed.value)]
  ELSE [call |-> [call EXCEPT !.pc = "failed",
                              !.error = WrappedError(obj, parsed.message)],
        cache |-> DataCache_set(cache, PropertyKey(obj.url), ArrayData(<<>>))]

\* fetch(params) resumed after `await this.parser.parse(response)`: the data
\* is cached and queried, or the catch block wraps the error.
FetchData_fetch_afterParse(call, obj, parsed, cache) ==
  IF parsed.ok
  THEN [call |-> [call EXCEPT !.pc = "done", !.data = parsed.value,
                              !.result = filterStaticData(parsed.value, call.params)],
        cache |-> DataCache_set(cache, PropertyKey(obj.url), parsed.value)]
  ELSE [call |-> [call EXCEPT !.pc = "failed",
                              !.error = WrappedError(obj, parsed.message)],
        cache |-> cache]

-----------------------------------------------------------------------------
(* Inputs of the fetch protocol *)

Urls == {"u1", "u2"}
StaticSource == ArrayData(<<Row1, Row3>>)

\* The FetchData objects a page constructs, in order of construction: two
\* tables on one URL, tables on two URLs, a table on a URL and a static one.
Setups ==
  { <<Url("u1"), Url("u1")>>,
    <<Url("u1"), Url("u2")>>,
    <<StaticSource, Url("u1")>> }

IsPrefix(p, q) == Len(p) <= Len(q) /\ SubSeq(q, 1, Len(p)) = p

FetchParams ==
  { <<[k |-> "a", v |-> Str(<<"1">>)]>>,
    <<[k |-> "page", v |-> Num(2)], [k |-> "limit", v |-> Num(1)]>> }

-----------------------------------------------------------------------------
(* The fetch protocol as a state machine *)

Init ==
  /\ DataCache_instance = 0
  /\ caches = <<>>
  /\ fetchers = <<>>
  /\ calls = <<>>
  /\ q_data = ArrayData(<<>>)
  /\ q_params = <<>>
  /\ q_result = NoResult
  /\ q_pc = "off"
  /\ csv_response = NoResult
  /\ csv_parsed = NoResult
  /\ table = NoResult
  /\ pager = NoResult
  /\ pending = <<>>
  /\ paginator = NoResult
  /\ paginated = NoResult
  /\ paginator_args = NoResult
  /\ renderer = NoResult
  /\ planned = NoResult

\* new FetchData(url)
NewFetchData(url) ==
  /\ \E setup \in Setups :
       IsPrefix(Append([i \in 1..Len(fetchers) |-> fetchers[i].url], url), setup)
  /\ LET made == FetchData_new(url, FALSE, DataCache_instance, caches)
     IN /\ fetchers' = Append(fetchers, made.object)
        /\ DataCache_instance' = made.instance
        /\ caches' = made.caches
  /\ UNCHANGED <<calls, qvars, cvars, gvars, bvars>>

\* fetchers[this].fetch(params) is called and runs to its first await
Call(this, params) ==
  /\ calls' = Append(calls, FetchData_fetch(this, fetchers[this], params,
                                            caches[fetchers[this].cache]))
  /\ UNCHANGED <<DataCache_instance, caches, fetchers, qvars, cvars, gvars, bvars>>

Fetch(this, params) ==
  /\ Len(calls) < MaxCalls
  /\ Call(this, params)

\* the network call of activation c settles
Respond(c, outcome) ==
  /\ calls[c].pc = "awaitFetch"
  /\ calls' = [calls EXCEPT ![c] =
                 FetchData_fetch_afterFetch(calls[c], fetchers[calls[c].this],
                                            NetworkFetcher_fetch(outcome))]
  /\ UNCHANGED <<DataCache_instance, caches, fetchers, qvars, cvars, gvars, bvars>>

\* the parse of activation c settles
Parsed(c) ==
  /\ calls[c].pc = "awaitParse"
  /\ LET obj == fetchers[calls[c].this]
         after == FetchData_fetch_afterParse(calls[c], obj,
                                             ResponseParser_parse(calls[c].response),
                                             caches[obj.cache])
     IN /\ calls' = [calls EXCEPT ![c] = after.call]
        /\ caches' = [caches EXCEPT ![obj.cache] = after.cache]
  /\ UNCHANGED <<DataCache_instance, fetchers, qvars, cvars, gvars, bvars>>

Next ==
  \/ \E setup \in Setups : \E i \in 1..Len(setup) : NewFetchData(setup[i])
  \/ \E this \in 1..Len(fetchers) : \E params \in FetchParams : Fetch(this, params)
  \/ \E c \in 1..Len(calls) : \E outcome \in FetchOutcomes : Respond(c, outcome)
  \/ \E c \in 1..Len(calls) : Parsed(c)

Spec == Init /\ [][Next]_vars

-----------------------------------------------------------------------------
(* Vocabulary of the claims about the fetch protocol *)

\* The process-wide cache: the `cache` field of DataCache.instance.
TheCache == IF DataCache_instance = 0 THEN EmptyCache ELSE caches[DataCache_instance]

Cached(K) == K \in DOMAIN TheCache

SourceOf(c) == fetchers[calls[c].this].url
IsRemote(c) == SourceOf(c).t = "url"
IsFor(c, K) == SourceOf(c) = Url(K)

Settled(c) == calls[c].pc \in {"done", "failed"}
InFlight(c) == calls[c].pc \in {"awaitFetch", "awaitParse"}

\* This step starts a call: the new activation is the last one.
StartsCall == Len(calls') = Len(calls) + 1
NewCall == calls'[Len(calls')]

\* This step completes activation c successfully after a parse / fails it.
Completes(c) == calls[c].pc = "awaitParse" /\ calls'[c].pc = "done"
Fails(c) == InFlight(c) /\ calls'[c].pc = "failed"

-----------------------------------------------------------------------------
\* What a step that starts a call for an already completed URL must do.
C1_Step ==
  \A K \in Urls :
    ( /\ \E c \in 1..Len(calls) : IsFor(c, K) /\ calls[c].pc = "done"
      /\ StartsCall
      /\ fetchers[NewCall.this].url = Url(K) )
    => /\ Cached(K)
       /\ NewCall.pc = "done"
       /\ NewCall.fetches = 0 /\ NewCall.parses = 0
       /\ NewCall.result = filterStaticData(TheCache[K], NewCall.params)
       /\ SubSeq(calls', 1, Len(calls)) = calls

(* C1: once a call for a URL K has completed successfully, through any      *)
(* FetchData object, every call for K started later, through any FetchData  *)
(* object and with any params, completes without a Transport fetch or a     *)
(* parse by anyone, and its result is filterStaticData of the dataset the   *)
(* shared cache holds under K.                                              *)
C1_CachedSourceIsNotRefetched == [][C1_Step]_vars

\* C1 witness: a call fetched K over the network, and a later call through
\* another FetchData object, with other params, was answered from the cache.
C1_Witness ==
  \E c, d \in 1..Len(calls) :
    /\ c < d
    /\ \E K \in Urls : IsFor(c, K) /\ IsFor(d, K)
    /\ calls[c].this # calls[d].this
    /\ calls[c].params # calls[d].params
    /\ calls[c].pc = "done" /\ calls[c].fetches = 1
    /\ calls[d].pc = "done" /\ calls[d].fetches = 0 /\ calls[d].parses = 0

-----------------------------------------------------------------------------
\* What holds of every call that went to the network, and what every step must do.
C2_State ==
  \A c \in 1..Len(calls) :
    (IsRemote(c) /\ calls[c].fetches = 1) =>
      /\ calls[c].pc = "awaitFetch" => calls[c].parses = 0
      /\ calls[c].pc \in {"awaitParse", "done"} => calls[c].parses = 1
      /\ calls[c].pc = "done" =>
           /\ calls[c].data = ResponseParser_parse(calls[c].response).value
           /\ calls[c].result = filterStaticData(calls[c].data, calls[c].params)

C2_Step ==
  /\ \A K \in Urls :
       (StartsCall /\ fetchers[NewCall.this].url = Url(K) /\ ~Cached(K))
         => NewCall.pc = "awaitFetch" /\ NewCall.fetches = 1
  /\ \A c \in 1..Len(calls) : \A K \in Urls :
       (Completes(c) /\ IsFor(c, K)) => Cached(K)' /\ TheCache'[K] = calls'[c].data
  /\ \A K \in Urls :
       (Cached(K)' /\ (~Cached(K) \/ TheCache'[K] # TheCache[K]))
         => \E c \in 1..Len(calls) : Completes(c) /\ IsFor(c, K)

(* C2: calls for the same uncached URL K are not deduplicated.  A call that *)
(* starts while K is not cached invokes Transport, also when another call   *)
(* for K is in flight; each such call invokes the parser once on its own    *)
(* response and returns the query of its own parsed dataset; each           *)
(* completion writes its dataset under K, so the entry is that of the call  *)
(* that wrote last, and nothing else changes it.                            *)
C2_NoSingleFlightLastWriteWins == []C2_State /\ [][C2_Step]_vars

\* C2 witness: two calls for one URL both went to the network, parsed different
\* datasets and returned different results; the cache holds one of the two.
C2_Witness ==
  \E c, d \in 1..Len(calls) : \E K \in Urls :
    /\ c # d /\ IsFor(c, K) /\ IsFor(d, K)
    /\ calls[c].pc = "done" /\ calls[c].fetches = 1 /\ calls[c].parses = 1
    /\ calls[d].pc = "done" /\ calls[d].fetches = 1 /\ calls[d].parses = 1
    /\ calls[c].data # calls[d].data
    /\ calls[c].params = calls[d].params
    /\ calls[c].result # calls[d].result
    /\ TheCache[K] = calls[d].data

-----------------------------------------------------------------------------
\* What holds of every cache entry, and what every step must do.
C3_State ==
  \A i \in 1..Len(caches) : \A K \in DOMAIN caches[i] :
    \E c \in 1..Len(calls) :
      /\ IsRemote(c) /\ IsFor(c, K)
      /\ calls[c].fetches = 1 /\ calls[c].parses = 1
      /\ calls[c].pc = "done"
      /\ calls[c].data # None

C3_Step ==
  /\ Len(caches') >= Len(caches)
  /\ \A i \in 1..Len(caches) : DOMAIN caches[i] \subseteq DOMAIN caches'[i]
  /\ DataCache_instance # 0 => DataCache_instance' = DataCache_instance

(* C3: a cache holds an entry for a key K only if a Transport fetch and a   *)
(* parse for the URL K completed successfully, and no step removes an       *)
(* entry: a key that is present stays present.                              *)
C3_EntriesOnlyFromFetchesAndKept == []C3_State /\ [][C3_Step]_vars

\* C3 witness: the cache holds entries for two URLs, the second written after
\* the first.
C3_Witness ==
  /\ DOMAIN TheCache = Urls
  /\ \A c \in 1..Len(calls) : calls[c].pc = "done"

-----------------------------------------------------------------------------
\* The messages of the errors that can end activation c where it is.
UnderlyingMessages(c) ==
  IF calls[c].pc = "awaitParse"
  THEN {ResponseParser_parse(calls[c].response).message}
  ELSE {NetworkFetcher_fetch(o).message :
          o \in {x \in FetchOutcomes : ~NetworkFetcher_fetch(x).ok}}

C4_Step ==
  \A c \in 1..Len(calls) :
    Fails(c) =>
      /\ caches' = caches
      /\ calls'[c].result = None /\ calls'[c].data = None
      /\ \E m \in UnderlyingMessages(c) :
           /\ m # <<>>
           /\ calls'[c].error =
                <<"Error fetching data from ", SourceOf(c).s, ": ">> \o m

C4_State ==
  \A c \in 1..Len(calls) :
    calls[c].pc = "failed" => calls[c].result = None /\ calls[c].error # None

(* C4: when Transport or the parser fails, the call fails with the error    *)
(* "Error fetching data from K: " followed by the underlying message, it    *)
(* returns no result, and the step leaves every cache as it was.            *)
C4_FailureWrapsAndLeavesCache == []C4_State /\ [][C4_Step]_vars

\* C4 witness: one call failed in Transport, another in the parser, and the
\* cache has no entry for their URL.
C4_Witness ==
  \E c, d \in 1..Len(calls) : \E K \in Urls :
    /\ IsFor(c, K) /\ IsFor(d, K)
    /\ calls[c].pc = "failed" /\ calls[c].parses = 0
    /\ calls[d].pc = "failed" /\ calls[d].parses = 1
    /\ ~Cached(K)

-----------------------------------------------------------------------------
\* What a step that starts a call on a static source must do.
C5_Step ==
  (StartsCall /\ fetchers[NewCall.this].url.t # "url") =>
    /\ caches' = caches /\ DataCache_instance' = DataCache_instance
    /\ NewCall.pc = "done"
    /\ NewCall.gets = 0 /\ NewCall.fetches = 0 /\ NewCall.parses = 0
    /\ NewCall.result = filterStaticData(fetchers[NewCall.this].url, NewCall.params)
    /\ NewCall.error = None

(* C5: a fetch on a static source completes at once with filterStaticData   *)
(* of the supplied dataset; it calls neither cache.get, Transport nor the   *)
(* parser, and the step leaves every cache as it was.                       *)
C5_StaticSourceBypassesCache == [][C5_Step]_vars

\* C5 witness: a static query returned records while the cache held an entry.
C5_Witness ==
  \E c \in 1..Len(calls) :
    /\ ~IsRemote(c)
    /\ calls[c].pc = "done"
    /\ calls[c].result.results # <<>>
    /\ DOMAIN TheCache # {}

-----------------------------------------------------------------------------
(* One table querying its URL again and again: SimplifyTable.init has       *)
(* constructed the FetchData of the table, and getData calls its fetch for  *)
(* every page change while the server's dataset may change between fetches. *)

TableUrl == Url("u1")

\* The server answers with JSON: the dataset as it is at the time.
RepeatOutcomes ==
  { [rejected |-> FALSE,
     response |-> Response(TRUE, 200, "application/json", JsonBody(ArrayData(rows)))] :
       rows \in {<<Row1, Row2>>, <<Row2>>} }

RInit ==
  /\ LET made == FetchData_new(TableUrl, TRUE, 0, <<>>)
     IN /\ DataCache_instance = made.instance
        /\ caches = made.caches
        /\ fetchers = <<made.object>>
  /\ calls = <<>>
  /\ q_data = ArrayData(<<>>)
  /\ q_params = <<>>
  /\ q_result = NoResult
  /\ q_pc = "off"
  /\ csv_response = NoResult
  /\ csv_parsed = NoResult
  /\ table = NoResult
  /\ pager = NoResult
  /\ pending = <<>>
  /\ paginator = NoResult
  /\ paginated = NoResult
  /\ paginator_args = NoResult
  /\ renderer = NoResult
  /\ planned = NoResult

\* this.fetchApi.fetch(params) of the table
Refetch(params) ==
  /\ Len(calls) < MaxRepeat
  /\ Call(1, params)

RNext ==
  \/ \E params \in FetchParams : Refetch(params)
  \/ \E c \in 1..Len(calls) : \E outcome \in RepeatOutcomes : Respond(c, outcome)
  \/ \E c \in 1..Len(calls) : Parsed(c)

SpecRepeat == RInit /\ [][RNext]_vars

-----------------------------------------------------------------------------
\* Activation c was answered from the cache.
CacheHit(c) ==
  /\ IsRemote(c) /\ calls[c].pc = "done"
  /\ calls[c].gets = 1 /\ calls[c].fetches = 0 /\ calls[c].parses = 0

\* Activation c fetched and parsed its dataset and wrote it to the cache.
Wrote(c) == IsRemote(c) /\ calls[c].pc = "done" /\ calls[c].fetches = 1

SameQuery(c, d) == SourceOf(c) = SourceOf(d) /\ calls[c].params = calls[d].params

\* Every write of the entry of K stored the same dataset.
Unmodified(K) ==
  \A e, f \in 1..Len(calls) :
    (Wrote(e) /\ Wrote(f) /\ IsFor(e, K) /\ IsFor(f, K)) => calls[e].data = calls[f].data

(* C11 as stated: two identical queries issued one after the other against  *)
(* a cached source yield identical QueryResults.                            *)
C11_IdenticalQueriesAgree_AsStated ==
  \A c, d \in 1..Len(calls) :
    (c < d /\ CacheHit(c) /\ CacheHit(d) /\ SameQuery(c, d))
      => calls[c].result = calls[d].result

C11_State ==
  \A K \in Urls : \A c, d \in 1..Len(calls) :
    ( /\ c < d /\ CacheHit(c) /\ CacheHit(d) /\ SameQuery(c, d) /\ IsFor(c, K)
      /\ Unmodified(K) )
    => /\ calls[c].result = calls[d].result
       /\ calls[d].result = filterStaticData(TheCache[K], calls[d].params)

C11_Step ==
  \A K \in Urls :
    (StartsCall /\ fetchers[NewCall.this].url = Url(K) /\ Cached(K)) =>
      /\ NewCall.result = filterStaticData(TheCache[K], NewCall.params)
      /\ caches' = caches
      /\ \A c \in 1..Len(calls) :
           ( /\ CacheHit(c) /\ IsFor(c, K) /\ calls[c].params = NewCall.params
             /\ calls[c].result = filterStaticData(TheCache[K], calls[c].params) )
           => NewCall.result = calls[c].result

(* C11 amended: two identical queries against a cached source yield         *)
(* identical QueryResults when the cache entry of the source is the same at *)
(* both queries, with any number of cache-answered queries in between: a    *)
(* query answered from the cache returns filterStaticData of the entry and  *)
(* leaves the entry alone.  A fetch of the same URL that started before the *)
(* source was cached and completes between the two queries rewrites the     *)
(* entry, and the later query follows the new dataset.                      *)
C11_IdenticalQueriesAgree == []C11_State /\ [][C11_Step]_vars

\* C11 witness: two identical queries answered from the cache, a different
\* query answered between them, and the same non-empty result for both.
C11_Witness ==
  \E c, d, e \in 1..Len(calls) :
    /\ c < e /\ e < d
    /\ CacheHit(c) /\ CacheHit(d) /\ CacheHit(e)
    /\ SameQuery(c, d) /\ ~SameQuery(c, e)
    /\ calls[c].result = calls[d].result
    /\ calls[c].result.results # <<>>

-----------------------------------------------------------------------------
(* The query function as a state machine: a caller holds a dataset, builds  *)
(* a params object property by property (the order of assignment is the     *)
(* key order of Object.keys) and calls filterStaticData.                    *)

HasKey(params, key) == \E i \in 1..Len(params) : params[i].k = key

QInit ==
  /\ DataCache_instance = 0
  /\ caches = <<>>
  /\ fetchers = <<>>
  /\ calls = <<>>
  /\ q_data \in Datasets
  /\ q_params = <<>>
  /\ q_result = NoResult
  /\ q_pc = "ready"
  /\ csv_response = NoResult
  /\ csv_parsed = NoResult
  /\ table = NoResult
  /\ pager = NoResult
  /\ pending = <<>>
  /\ paginator = NoResult
  /\ paginated = NoResult
  /\ paginator_args = NoResult
  /\ renderer = NoResult
  /\ planned = NoResult

\* params[key] = val, for a key the object does not have yet
SetParam(key, val) ==
  /\ q_pc = "ready"
  /\ ~HasKey(q_params, key)
  /\ q_params' = Append(q_params, [k |-> key, v |-> val])
  /\ UNCHANGED <<q_data, q_result, q_pc>>
  /\ UNCHANGED <<pvars, cvars, gvars, bvars>>

Query ==
  /\ q_pc = "ready"
  /\ q_result' = filterStaticData(q_data, q_params)
  /\ q_pc' = "done"
  /\ q_data' = DataAfter(q_data, q_params)
  /\ UNCHANGED q_params
  /\ UNCHANGED <<pvars, cvars, gvars, bvars>>

QNext ==
  \/ \E key \in Keys : \E val \in ValuesOf(key) : SetParam(key, val)
  \/ Query

SpecQuery == QInit /\ [][QNext]_vars

-----------------------------------------------------------------------------
(* What the query of a state asks for, stated without the code's operators  *)
(* for looping, defaulting and slicing.                                     *)

\* The number a page or limit value denotes: itself, or the number whose
\* decimal form the string is.
Denoted(v) ==
  IF v.t = "num" THEN v.n
  ELSE CHOOSE n \in 0..(10 * DefaultLimit) : NatToString(n) = v.s

GivesPage(params) == HasKey(params, "page")
GivesLimit(params) == HasKey(params, "limit")
WantedPage(params) ==
  IF GivesPage(params) THEN Denoted(Param(params, "page")) ELSE DefaultPage
WantedLimit(params) ==
  IF GivesLimit(params) THEN Denoted(Param(params, "limit")) ELSE DefaultLimit

FiltersOf(params) ==
  {i \in 1..Len(params) : params[i].k # "page" /\ params[i].k # "limit"}

\* The record passes the filter: a case-insensitive substring match on the
\* string forms.
Matches(item, key, val) ==
  includes(toLowerCase(String(Item(item, key))), toLowerCase(String(val)))

MatchesAll(item, params) ==
  \A i \in FiltersOf(params) : Matches(item, params[i].k, params[i].v)

\* The records of the dataset that match every filter, in source order.
Matching(data, params) ==
  LET Keep(item) == MatchesAll(item, params) IN SelectSeq(Records(data), Keep)

\* params with the given key removed / with a property added at the end
Without(params, key) == LET Keep(x) == x.k # key IN SelectSeq(params, Keep)
With(params, key, val) == Append(Without(params, key), [k |-> key, v |-> val])

\* The same params object with its properties assigned in the order page,
\* limit, a, b.  Every key order of a query is a reachable state (SetParam
\* adds the properties in any order), so all orders agree when each agrees
\* with this one.
KeyOrder == <<"page", "limit", "a", "b">>
Reordered(params) ==
  LET Has(key) == HasKey(params, key)
      present == SelectSeq(KeyOrder, Has)
  IN [i \in 1..Len(present) |-> [k |-> present[i], v |-> Param(params, present[i])]]

Done == q_pc = "done"

-----------------------------------------------------------------------------
(* C6: totalResults is the number of records of the dataset that match all  *)
(* filters, whatever page and limit are (the same count for the query with  *)
(* page and limit removed or replaced); with no filter keys it is the size  *)
(* of the dataset.                                                          *)
C6_TotalCountsAllMatches ==
  Done =>
    /\ q_result.totalResults = Len(Matching(q_data, q_params))
    /\ q_result.totalResults =
         Cardinality({i \in 1..Len(Records(q_data)) :
                        MatchesAll(Records(q_data)[i], q_params)})
    /\ FiltersOf(q_params) = {} => q_result.totalResults = Len(Records(q_data))

\* C6 witness: a paginated, filtered query whose window is shorter than its count.
C6_Witness ==
  /\ Done
  /\ GivesPage(q_params) /\ GivesLimit(q_params)
  /\ FiltersOf(q_params) # {}
  /\ Len(q_result.results) < q_result.totalResults
  /\ q_result.totalResults < Len(Records(q_data))

-----------------------------------------------------------------------------
(* C7 as stated: for all queries, with limit taken as 10 when omitted, the  *)
(* window has at most limit records, and it has exactly totalResults        *)
(* records when totalResults < limit and page = 1.                          *)
C7_WindowAtMostLimit_AsStated ==
  Done =>
    /\ Len(q_result.results) <= WantedLimit(q_params)
    /\ (q_result.totalResults < WantedLimit(q_params) /\ WantedPage(q_params) = 1)
         => Len(q_result.results) = q_result.totalResults

(* C7 amended: for every query that gives a page or a limit (the other one  *)
(* defaulting to 1 or 10) the window has at most limit records; for every   *)
(* query, the window has exactly totalResults records when totalResults <   *)
(* limit and page = 1; a query that gives neither page nor limit is not     *)
(* paginated and its window is the whole filtered set.                      *)
C7_WindowAtMostLimit ==
  Done =>
    /\ (GivesPage(q_params) \/ GivesLimit(q_params))
         => Len(q_result.results) <= WantedLimit(q_params)
    /\ (q_result.totalResults < WantedLimit(q_params) /\ WantedPage(q_params) = 1)
         => Len(q_result.results) = q_result.totalResults
    /\ (~GivesPage(q_params) /\ ~GivesLimit(q_params))
         => Len(q_result.results) = q_result.totalResults

\* C7 witness: a query with a page and no limit fills a window of 10 from more.
C7_Witness ==
  /\ Done
  /\ GivesPage(q_params) /\ ~GivesLimit(q_params)
  /\ Len(q_result.results) = DefaultLimit
  /\ q_result.totalResults > DefaultLimit

-----------------------------------------------------------------------------
\* The query with every omitted page and limit given as page = 1, limit = 10.
Explicit(params) ==
  LET p1 == IF GivesPage(params) THEN params
            ELSE Append(params, [k |-> "page", v |-> Num(DefaultPage)])
  IN IF GivesLimit(params) THEN p1
     ELSE Append(p1, [k |-> "limit", v |-> Num(DefaultLimit)])

(* C8 as stated: a query that omits page, limit, or both returns the same   *)
(* QueryResult as the same query with page = 1 and limit = 10 given         *)
(* explicitly.                                                              *)
C8_DefaultsAreExplicit_AsStated ==
  Done => q_result = filterStaticData(q_data, Explicit(q_params))

(* C8 amended: a query that omits exactly one of page and limit returns the *)
(* same QueryResult as the same query with the omitted one given explicitly *)
(* (page = 1, limit = 10); a query that omits both is not paginated: it     *)
(* returns the whole filtered set, which is the page = 1, limit = 10 result *)
(* exactly when totalResults <= 10.                                         *)
C8_DefaultsAreExplicit ==
  Done =>
    /\ (GivesPage(q_params) \/ GivesLimit(q_params))
         => q_result = filterStaticData(q_data, Explicit(q_params))
    /\ (~GivesPage(q_params) /\ ~GivesLimit(q_params))
         => /\ q_result.results = Matching(q_data, q_params)
            /\ (q_result = filterStaticData(q_data, Explicit(q_params)))
                 <=> (q_result.totalResults <= DefaultLimit)

\* C8 witness: a limit and no page on a dataset of more than 10 records,
\* and in the same dataset's state the window is the first page.
C8_Witness ==
  /\ Done
  /\ ~GivesPage(q_params) /\ GivesLimit(q_params)
  /\ Len(Records(q_data)) > DefaultLimit
  /\ q_result.results # <<>>
  /\ q_result.results[1] = Matching(q_data, q_params)[1]
  /\ Len(q_result.results) < q_result.totalResults

-----------------------------------------------------------------------------
(* C9: for a paginated query with page >= 1 and limit >= 1 the window is    *)
(* exactly the filtered records at positions [(page-1)*limit,               *)
(* min(page*limit, totalResults)) in source order, and it is empty (a       *)
(* result is still returned) when (page-1)*limit >= totalResults.           *)
C9_WindowIsThePageSlice ==
  (Done /\ (GivesPage(q_params) \/ GivesLimit(q_params))) =>
    LET m == Matching(q_data, q_params)
        lo == (WantedPage(q_params) - 1) * WantedLimit(q_params)
        hi == Min(WantedPage(q_params) * WantedLimit(q_params), Len(m))
    IN /\ WantedPage(q_params) >= 1 /\ WantedLimit(q_params) >= 1
       /\ q_result # NoResult
       /\ q_result.totalResults = Len(m)
       /\ IF lo >= Len(m)
          THEN q_result.results = <<>>
          ELSE q_result.results = [i \in 1..(hi - lo) |-> m[lo + i]]

\* C9 witness: a later page whose window is cut short by the end of the set.
C9_Witness ==
  /\ Done
  /\ GivesPage(q_params)
  /\ WantedPage(q_params) >= 2
  /\ Len(q_result.results) >= 1
  /\ Len(q_result.results) < WantedLimit(q_params)

-----------------------------------------------------------------------------
(* C10: a record is retained if and only if, for every query key other than *)
(* page and limit, the lower-cased string form of the filter value is a     *)
(* substring of the lower-cased string form of the record's field of that   *)
(* name; the retained set does not depend on the order of the filter keys.  *)
C10_FilterIsConjunction ==
  Done =>
    /\ q_result.totalResults = Len(Matching(q_data, q_params))
    /\ \A i \in 1..Len(q_result.results) : MatchesAll(q_result.results[i], q_params)
    /\ (~GivesPage(q_params) /\ ~GivesLimit(q_params))
         => q_result.results = Matching(q_data, q_params)
    /\ filterStaticData(q_data, Reordered(q_params)) = q_result

\* C10 witness: two filters, a record that passes the first filter and fails
\* the second, and a record that passes both.
C10_Witness ==
  /\ Done
  /\ ~GivesPage(q_params) /\ ~GivesLimit(q_params)
  /\ Cardinality(FiltersOf(q_params)) = 2
  /\ q_result.results # <<>>
  /\ \E n \in 1..Len(Records(q_data)) :
       /\ Matches(Records(q_data)[n], q_params[1].k, q_params[1].v)
       /\ ~Matches(Records(q_data)[n], q_params[2].k, q_params[2].v)

-----------------------------------------------------------------------------
\* This step is the call of filterStaticData.
Queries == q_pc = "ready" /\ q_pc' = "done"

RangeOf(seq) == {seq[i] : i \in 1..Len(seq)}

C12_Step == Queries => q_data' = q_data

C12_State == Done => RangeOf(q_result.results) \subseteq RangeOf(Records(q_data))

-----------------------------------------------------------------------------
\* A response with a non-success status, and the error NetworkFetcher.fetch
\* throws for it.
Unsuccessful(status) ==
  [rejected |-> FALSE, response |-> Response(FALSE, status, "text/html", TextBody(<<>>))]

StatusError(status) == <<"HTTP error! status: ", ToString(status)>>

C13_State ==
  /\ \A status \in ErrorStatuses :
       NetworkFetcher_fetch(Unsuccessful(status)) = Thrown(StatusError(status))
  /\ \A o \in FetchOutcomes :
       IF o.rejected THEN ~NetworkFetcher_fetch(o).ok
       ELSE IF o.response.ok THEN NetworkFetcher_fetch(o) = Returned(o.response)
       ELSE NetworkFetcher_fetch(o) = Thrown(StatusError(o.response.status))
  /\ \A c \in 1..Len(calls) :
       /\ calls[c].fetches <= 1
       /\ calls[c].pc = "awaitFetch" => calls[c].fetches = 1
       /\ (calls[c].pc = "failed" /\ calls[c].parses = 0) =>
            \E m \in UnderlyingMessages(c) :
              calls[c].error = <<"Error fetching data from ", SourceOf(c).s, ": ">> \o m

C13_Step ==
  \A c \in 1..Len(calls) :
    /\ calls'[c].fetches = calls[c].fetches
    /\ (calls[c].pc = "awaitFetch" /\ calls'[c] # calls[c])
         => calls'[c].pc \in {"awaitParse", "failed"}
    /\ Settled(c) => calls'[c] = calls[c]

(* C13: NetworkFetcher.fetch fails with an error carrying the HTTP status   *)
(* whenever the response is not a success status, and there are no          *)
(* retries: one FetchData.fetch call invokes Transport at most once,        *)
(* whether the call succeeds or fails.                                      *)
C13_StatusErrorAndNoRetry == []C13_State /\ [][C13_Step]_vars

\* C13 witness: a call failed on a 404 after one Transport invocation, and a
\* call that succeeded also made one.
C13_Witness ==
  \E c, d \in 1..Len(calls) :
    /\ calls[c].pc = "failed" /\ calls[c].fetches = 1 /\ calls[c].parses = 0
    /\ calls[c].error =
         <<"Error fetching data from ", SourceOf(c).s, ": ">> \o StatusError(404)
    /\ calls[d].pc = "done" /\ calls[d].fetches = 1

-----------------------------------------------------------------------------
(* The parser as a state machine: a server writes a response with a content *)
(* type, a header line and, piece by piece, the text after it; then         *)
(* ResponseParser.parse is applied to the response.                         *)

ParseContentTypes ==
  {"text/csv", "text/csv; charset=utf-8", "application/json", "text/html", NoContentType}

\* "a,b" and " a ,b,c"
CsvHeaders == { <<"a", ",", "b">>, <<" ", "a", " ", ",", "b", ",", "c">> }

\* The pieces of text a body is written from: a character, or the quoted
\* span "x,y".
QuotedSpan == <<"\"", "x", ",", "y", "\"">>
Pieces == { <<"x">>, <<",">>, <<" ">>, <<"\n">>, QuotedSpan }

\* The text of a body after its header line
RECURSIVE AfterFirstLine(_)
AfterFirstLine(chars) ==
  IF chars = <<>> THEN <<>>
  ELSE IF Head(chars) = "\n" THEN Tail(chars)
  ELSE AfterFirstLine(Tail(chars))

PInit ==
  /\ DataCache_instance = 0
  /\ caches = <<>>
  /\ fetchers = <<>>
  /\ calls = <<>>
  /\ q_data = ArrayData(<<>>)
  /\ q_params = <<>>
  /\ q_result = NoResult
  /\ q_pc = "off"
  /\ csv_response \in
       {Response(TRUE, 200, ct, TextBody(Append(h, "\n"))) :
          ct \in ParseContentTypes, h \in CsvHeaders}
  /\ csv_parsed = NoResult
  /\ table = NoResult
  /\ pager = NoResult
  /\ pending = <<>>
  /\ paginator = NoResult
  /\ paginated = NoResult
  /\ paginator_args = NoResult
  /\ renderer = NoResult
  /\ planned = NoResult

\* the server writes more of the body
Write(piece) ==
  /\ csv_parsed = NoResult
  /\ Len(AfterFirstLine(csv_response.body.chars)) + Len(piece) <= MaxCsvLen
  /\ csv_response' =
       [csv_response EXCEPT !.body = TextBody(csv_response.body.chars \o piece)]
  /\ UNCHANGED <<csv_parsed, pvars, qvars, gvars, bvars>>

\* parser.parse(response)
Parse ==
  /\ csv_parsed = NoResult
  /\ csv_parsed' = ResponseParser_parse(csv_response)
  /\ UNCHANGED <<csv_response, pvars, qvars, gvars, bvars>>

PNext ==
  \/ \E piece \in Pieces : Write(piece)
  \/ Parse

SpecParse == PInit /\ [][PNext]_vars

-----------------------------------------------------------------------------
(* What a response is, stated without the parser's operators.               *)

ParsedNow == csv_parsed # NoResult

\* The media types that are JSON and CSV.
JsonTypes == {"application/json"}
CsvTypes == {"text/csv", "text/csv; charset=utf-8"}

IsCsvResponse == csv_response.contentType \in CsvTypes

\* The column names of the body: the cells of its first line, trimmed.
Columns ==
  LET cells == split(split(csv_response.body.chars, "\n")[1], ",")
  IN [k \in 1..Len(cells) |-> PropertyName(trim(cells[k]))]

NCols == Len(Columns)

\* The non-blank lines after the header line, in order.
NonBlank(line) == \E j \in 1..Len(line) : ~IsWhite(line[j])
DataLinesOf == SelectSeq(Tail(split(csv_response.body.chars, "\n")), NonBlank)

\* The fields of a line: the pieces between the commas that are outside
\* double quotes.
RECURSIVE FieldsFrom(_, _, _)
FieldsFrom(line, inQuotes, field) ==
  IF line = <<>> THEN <<field>>
  ELSE IF Head(line) = "," /\ ~inQuotes
       THEN <<field>> \o FieldsFrom(Tail(line), FALSE, <<>>)
       ELSE FieldsFrom(Tail(line),
                       IF Head(line) = "\"" THEN ~inQuotes ELSE inQuotes,
                       Append(field, Head(line)))

Fields(line) == FieldsFrom(line, FALSE, <<>>)

Unquoted(line) == \A j \in 1..Len(line) : line[j] # "\""

\* The field is a double-quoted span with white space around it.
IsQuoted(field) ==
  LET f == trim(field) IN Len(f) >= 2 /\ f[1] = "\"" /\ f[Len(f)] = "\""

Between(field) == LET f == trim(field) IN SubSeq(f, 2, Len(f) - 1)

TheRecords == csv_parsed.value.results

-----------------------------------------------------------------------------
(* C14: ResponseParser.parse fails for every response whose content type is *)
(* neither JSON nor CSV, with an error that names the offending content     *)
(* type, and returns no dataset; a response without a content-type header   *)
(* has no type to name and fails with the TypeError of null.includes.       *)
C14_UnsupportedTypeFails ==
  ParsedNow =>
    LET ct == csv_response.contentType IN
    /\ ct \notin (JsonTypes \cup CsvTypes) =>
         /\ ~csv_parsed.ok
         /\ "value" \notin DOMAIN csv_parsed
    /\ (ct \notin (JsonTypes \cup CsvTypes) /\ ct # NoContentType) =>
         /\ csv_parsed.message = <<"Unsupported content type: ", ct>>
         /\ \E i \in 1..Len(csv_parsed.message) : csv_parsed.message[i] = ct
    /\ csv_parsed.ok => ct \in (JsonTypes \cup CsvTypes)

\* C14 witness: a text/html response with a body was parsed and failed.
C14_Witness ==
  /\ ParsedNow
  /\ csv_response.contentType = "text/html"
  /\ AfterFirstLine(csv_response.body.chars) # <<>>
  /\ ~csv_parsed.ok

-----------------------------------------------------------------------------
\* The record sequence of a decoded JSON value: its `results` field when it
\* has one, otherwise the value itself.
RecordSequence(value) ==
  IF "results" \in DOMAIN value THEN value.results ELSE value.items

\* The other JSON shape of the same records.
OtherShape(value) ==
  IF "results" \in DOMAIN value THEN [t |-> "array", items |-> value.results]
  ELSE [t |-> "object", results |-> value.items]

(* C15: for a JSON response the parser returns the decoded value, and the   *)
(* record sequence that queries run on is the value's `results` field when  *)
(* it has one and otherwise the whole value: a JSON array body and a JSON   *)
(* object body {results: [same array]} give the same QueryResult for every  *)
(* query.                                                                   *)
C15_RecordsOfJson ==
  Done =>
    /\ ResponseParser_parse(Response(TRUE, 200, "application/json", JsonBody(q_data)))
         = Returned(q_data)
    /\ q_result = filterStaticData(OtherShape(q_data), q_params)
    /\ q_result.totalResults =
         Cardinality({i \in 1..Len(RecordSequence(q_data)) :
                        MatchesAll(RecordSequence(q_data)[i], q_params)})
    /\ RangeOf(q_result.results) \subseteq RangeOf(RecordSequence(q_data))

\* C15 witness: a filtered, paginated query on an object body with a
\* `results` array returned records.
C15_Witness ==
  /\ Done
  /\ "results" \in DOMAIN q_data
  /\ FiltersOf(q_params) # {} /\ GivesPage(q_params)
  /\ q_result.results # <<>>

-----------------------------------------------------------------------------
(* C16 as stated: for every CSV body, csvToJson returns one record per      *)
(* non-blank data line after the header, in line order, and every record    *)
(* has exactly one entry for each header column; a data line with fewer     *)
(* fields than columns has the sentinel "-" in each missing trailing        *)
(* column.                                                                  *)
C16_OneRecordPerLine_AsStated ==
  (ParsedNow /\ IsCsvResponse) =>
    /\ csv_parsed.ok
    /\ Len(TheRecords) = Len(DataLinesOf)
    /\ \A i \in 1..Len(TheRecords) :
         /\ DOMAIN TheRecords[i] = {Columns[k] : k \in 1..NCols}
         /\ Unquoted(DataLinesOf[i]) =>
              \A k \in (Len(Fields(DataLinesOf[i])) + 1)..NCols :
                TheRecords[i][Columns[k]] = Str(Sentinel)

-----------------------------------------------------------------------------
(* C17 as stated: a double-quoted span on a data line is one field even     *)
(* when it contains commas: the value of its column is the text between the *)
(* quotes, with the white space around the span trimmed, and the commas     *)
(* inside it start no new fields (stated for the lines that have no more    *)
(* fields than columns, whichever column the value lands in).               *)
C17_QuotedSpanIsOneField_AsStated ==
  (ParsedNow /\ IsCsvResponse /\ csv_parsed.ok) =>
    \A i \in 1..Len(DataLinesOf) :
      LET fields == Fields(DataLinesOf[i]) IN
      \A k \in 1..Len(fields) :
        (IsQuoted(fields[k]) /\ Len(fields) <= NCols) =>
          \E c \in 1..NCols : TheRecords[i][Columns[c]] = Str(Between(fields[k]))

-----------------------------------------------------------------------------
(* C18 as stated: fields keep their column positions and the sentinel is    *)
(* used only for absent trailing fields: for a data line with n             *)
(* comma-separated fields the value of the k-th column is the k-th field    *)
(* for every k <= n (an empty field stays an empty value in its own column  *)
(* and does not shift later fields), and only the columns after the n-th    *)
(* get "-".                                                                 *)
C18_FieldsKeepTheirColumns_AsStated ==
  (ParsedNow /\ IsCsvResponse /\ csv_parsed.ok) =>
    \A i \in 1..Len(DataLinesOf) :
      LET fields == Fields(DataLinesOf[i]) IN
      Unquoted(DataLinesOf[i]) =>
        \A k \in 1..NCols :
          TheRecords[i][Columns[k]] =
            IF k <= Len(fields) THEN Str(trim(fields[k])) ELSE Str(Sentinel)

-----------------------------------------------------------------------------
(* PaginationRenderer and Pagination: the pager of a table *)

Null == [t |-> "null"]

\* ToNumber of a page value: null is 0.
ToNumber(v) == IF v.t = "num" THEN v.n ELSE 0

\* Math.ceil(a / b) for a >= 0 and b > 0
Ceil(a, b) == (a + b - 1) \div b

Chars(name) ==
  CASE name = "First" -> <<"F", "i", "r", "s", "t">>
    [] name = "Prev" -> <<"P", "r", "e", "v">>
    [] name = "Next" -> <<"N", "e", "x", "t">>
    [] name = "Last" -> <<"L", "a", "s", "t">>
    [] name = "..." -> <<".", ".", ".">>

\* A button configuration {text, page, active}
ButtonConfig(text, page, active) == [text |-> text, page |-> page, active |-> active]

\* Mutant: page 1 and an ellipsis are put in front of every window.
getPaginationButtons_FrontAlways(currentPage, totalPages) ==
  LET cur == ToNumber(currentPage)
      delta == 2
      named == IF cur > 1
               THEN << ButtonConfig(Str(Chars("First")), Num(1), Undefined),
                       ButtonConfig(Str(Chars("Prev")), Num(cur - 1), Undefined) >>
               ELSE <<>>
      start == Max(1, cur - delta)
      end == Min(totalPages, cur + delta)
      numbered == [k \in 1..Max(0, end - start + 1) |->
                     ButtonConfig(Num(start + k - 1), Num(start + k - 1),
                                  Bool(Num(start + k - 1) = currentPage))]
      looped == named \o numbered
      fronted == IF start > 0
                 THEN << ButtonConfig(Str(<<"1">>), Num(1), Undefined),
                         ButtonConfig(Str(Chars("...")), Null, Undefined) >> \o looped
                 ELSE looped
      backed == IF end < totalPages - 1
                THEN fronted \o
                     << ButtonConfig(Str(Chars("...")), Null, Undefined),
                        ButtonConfig(Str(NatToString(totalPages)), Num(totalPages),
                                     Undefined) >>
                ELSE fronted
  IN IF cur < totalPages
     THEN backed \o
          << ButtonConfig(Str(Chars("Next")), Num(cur + 1), Undefined),
             ButtonConfig(Str(Chars("Last")), Num(totalPages), Undefined) >>
     ELSE backed

\* Mutant: the named controls are pushed at the boundaries too.
getPaginationButtons_NamedAlways(currentPage, totalPages) ==
  LET cur == ToNumber(currentPage)
      delta == 2
      named == IF cur >= 1
               THEN << ButtonConfig(Str(Chars("First")), Num(1), Undefined),
                       ButtonConfig(Str(Chars("Prev")), Num(cur - 1), Undefined) >>
               ELSE <<>>
      start == Max(1, cur - delta)
      end == Min(totalPages, cur + delta)
      numbered == [k \in 1..Max(0, end - start + 1) |->
                     ButtonConfig(Num(start + k - 1), Num(start + k - 1),
                                  Bool(Num(start + k - 1) = currentPage))]
      looped == named \o numbered
      fronted == IF start > 2
                 THEN << ButtonConfig(Str(<<"1">>), Num(1), Undefined),
                         ButtonConfig(Str(Chars("...")), Null, Undefined) >> \o looped
                 ELSE looped
      backed == IF end < totalPages - 1
                THEN fronted \o
                     << ButtonConfig(Str(Chars("...")), Null, Undefined),
                        ButtonConfig(Str(NatToString(totalPages)), Num(totalPages),
                                     Undefined) >>
                ELSE fronted
  IN IF cur <= totalPages
     THEN backed \o
          << ButtonConfig(Str(Chars("Next")), Num(cur + 1), Undefined),
             ButtonConfig(Str(Chars("Last")), Num(totalPages), Undefined) >>
     ELSE backed

\* PaginationRenderer.getPaginationButtons for this.currentPage and
\* this.totalPages: push appends, unshift puts in front.
getPaginationButtons(currentPage, totalPages) ==
  LET cur == ToNumber(currentPage)
      delta == 2
      named == IF cur > 1
               THEN << ButtonConfig(Str(Chars("First")), Num(1), Undefined),
                       ButtonConfig(Str(Chars("Prev")), Num(cur - 1), Undefined) >>
               ELSE <<>>
      start == Max(1, cur - delta)
      end == Min(totalPages, cur + delta)
      numbered == [k \in 1..Max(0, end - start + 1) |->
                     ButtonConfig(Num(start + k - 1), Num(start + k - 1),
                                  Bool(Num(start + k - 1) = currentPage))]
      looped == named \o numbered
      fronted == IF start > 2
                 THEN << ButtonConfig(Str(<<"1">>), Num(1), Undefined),
                         ButtonConfig(Str(Chars("...")), Null, Undefined) >> \o looped
                 ELSE looped
      backed == IF end < totalPages - 1
                THEN fronted \o
                     << ButtonConfig(Str(Chars("...")), Null, Undefined),
                        ButtonConfig(Str(NatToString(totalPages)), Num(totalPages),
                                     Undefined) >>
                ELSE fronted
  IN IF cur < totalPages
     THEN backed \o
          << ButtonConfig(Str(Chars("Next")), Num(cur + 1), Undefined),
             ButtonConfig(Str(Chars("Last")), Num(totalPages), Undefined) >>
     ELSE backed

\* createButton: the button element, with the page its click handler passes
\* to changePage.
createButton(config) ==
  [textContent |-> String(config.text), page |-> config.page,
   active |-> Truthy(config.active)]

\* updateTotalPages
updateTotalPages(tbl) == Ceil(tbl.data.totalResults, tbl.rowsPerPage)

\* Mutant: the pager is left out only when there is no page at all.
renderPagination_OnePage(pgr, tbl) ==
  LET totalPages == Ceil(tbl.data.totalResults, tbl.rowsPerPage)
      buttons == getPaginationButtons(pgr.currentPage, totalPages)
  IN [pager |-> [pgr EXCEPT !.totalPages = totalPages],
      table |-> [tbl EXCEPT !.buttons =
                   IF totalPages < 1 THEN <<>>
                   ELSE [k \in 1..Len(buttons) |-> createButton(buttons[k])]]]

\* renderPagination: the pager and the table (its paginationContainer holds
\* the buttons) afterwards.
renderPagination(pgr, tbl) ==
  LET totalPages == updateTotalPages(tbl)
      buttons == getPaginationButtons(pgr.currentPage, totalPages)
  IN [pager |-> [pgr EXCEPT !.totalPages = totalPages],
      table |-> [tbl EXCEPT !.buttons =
                   IF totalPages <= 1 THEN <<>>
                   ELSE [k \in 1..Len(buttons) |-> createButton(buttons[k])]]]

\* SimplifyTable.getData up to its await: the query it sends.
getData(tbl) ==
  [params |-> << [k |-> "page", v |-> tbl.currentPage],
                 [k |-> "limit", v |-> Num(tbl.rowsPerPage)] >>]

-----------------------------------------------------------------------------
(* Inputs of the pager *)

\* The dataset behind the table's URL when it has n records.
SourceRows(n) == [i \in 1..n |-> [a |-> Num(i)]]
\* The sizes the dataset takes: empty, one record, full.
SourceSizes == {0, 1, MaxRecords}

\* options.rowsPerPage
RowsPerPageValues == {1, 2}

-----------------------------------------------------------------------------
(* The pager as a state machine: SimplifyTable.init has loaded the first    *)
(* page and constructed the Pagination; the user clicks pager buttons, the  *)
(* page calls updateRowsPerPage, and the getData calls complete in any      *)
(* order while the dataset behind the URL may change.  The table body, the  *)
(* rows-per-page paragraph and the goto-page select are display only and    *)
(* are left out.                                                            *)

GInit ==
  /\ DataCache_instance = 0
  /\ caches = <<>>
  /\ fetchers = <<>>
  /\ calls = <<>>
  /\ q_data = ArrayData(<<>>)
  /\ q_params = <<>>
  /\ q_result = NoResult
  /\ q_pc = "off"
  /\ csv_response = NoResult
  /\ csv_parsed = NoResult
  /\ \E n \in SourceSizes : \E rowsPerPage \in RowsPerPageValues :
       LET loaded == [currentPage |-> Num(1), rowsPerPage |-> rowsPerPage,
                      data |-> filterStaticData(
                                 ArrayData(SourceRows(n)),
                                 << [k |-> "page", v |-> Num(1)],
                                    [k |-> "limit", v |-> Num(rowsPerPage)] >>),
                      buttons |-> <<>>]
           made == renderPagination([currentPage |-> Num(1), totalPages |-> 0], loaded)
       IN table = made.table /\ pager = made.pager
  /\ pending = <<>>
  /\ paginator = NoResult
  /\ paginated = NoResult
  /\ paginator_args = NoResult
  /\ renderer = NoResult
  /\ planned = NoResult

\* A click on the b-th button of the pager: Pagination.changePage(page),
\* which calls updateBody (getData starts) and renderPagination.
Click(b) ==
  /\ b \in 1..Len(table.buttons)
  /\ Len(pending) < MaxPending
  /\ LET newPage == table.buttons[b].page IN
     IF newPage = Str(Chars("..."))
     THEN UNCHANGED <<table, pager, pending>>
     ELSE LET turned == [table EXCEPT !.currentPage = newPage]
              made == renderPagination([pager EXCEPT !.currentPage = newPage], turned)
          IN /\ pending' = Append(pending, getData(turned))
             /\ table' = made.table
             /\ pager' = made.pager
  /\ UNCHANGED <<pvars, qvars, cvars, bvars>>

\* updateRowsPerPage(rowsPerPage)
UpdateRowsPerPage(rowsPerPage) ==
  /\ Len(pending) < MaxPending
  /\ LET resized == [table EXCEPT !.rowsPerPage = rowsPerPage]
         made == renderPagination([pager EXCEPT !.currentPage = Num(1)], resized)
     IN /\ table' = made.table
        /\ pager' = made.pager
        /\ pending' = Append(pending, getData(made.table))
  /\ UNCHANGED <<pvars, qvars, cvars, bvars>>

\* The i-th getData in flight completes with the result of its query over
\* the dataset as it is now (n records); the then-callback of updateBody
\* calls pagination.updatePagination, that is renderPagination.
GetDataDone(i, n) ==
  /\ i \in 1..Len(pending)
  /\ LET data == filterStaticData(ArrayData(SourceRows(n)), pending[i].params)
         loaded == [table EXCEPT !.data = data]
         made == renderPagination(pager, loaded)
     IN /\ table' = made.table
        /\ pager' = made.pager
  /\ pending' = [k \in 1..(Len(pending) - 1) |->
                   IF k < i THEN pending[k] ELSE pending[k + 1]]
  /\ UNCHANGED <<pvars, qvars, cvars, bvars>>

\* The i-th getData in flight fails: the catch block of getData logs the
\* error, and the then-callback of updateBody runs as after a success.
GetDataFailed(i) ==
  /\ i \in 1..Len(pending)
  /\ LET made == renderPagination(pager, table)
     IN /\ table' = made.table
        /\ pager' = made.pager
  /\ pending' = [k \in 1..(Len(pending) - 1) |->
                   IF k < i THEN pending[k] ELSE pending[k + 1]]
  /\ UNCHANGED <<pvars, qvars, cvars, bvars>>

GNext ==
  \/ \E b \in 1..Len(table.buttons) : Click(b)
  \/ \E rowsPerPage \in RowsPerPageValues : UpdateRowsPerPage(rowsPerPage)
  \/ \E i \in 1..Len(pending) : \E n \in SourceSizes : GetDataDone(i, n)
  \/ \E i \in 1..Len(pending) : GetDataFailed(i)

SpecPager == GInit /\ [][GNext]_vars

-----------------------------------------------------------------------------
\* ceil(totalResults / rowsPerPage) of the table as it is
TotalPagesNow == Ceil(table.data.totalResults, table.rowsPerPage)

C19_State ==
  /\ pager.totalPages = TotalPagesNow
  /\ TotalPagesNow <= 1 => table.buttons = <<>>

\* Every step of the pager ends with renderPagination.
C19_Step ==
  (Ceil(table'.data.totalResults, table'.rowsPerPage) <= 1) => table'.buttons = <<>>

(* C19: PaginationRenderer.renderPagination renders no pager buttons at all *)
(* whenever totalPages, that is ceil(totalResults / rowsPerPage), is <= 1,  *)
(* whatever the current page is.                                            *)
C19_NoPagerForOnePage == []C19_State /\ [][C19_Step]_vars

\* C19 witness: the pager stood on a later page when the data shrank to one
\* page, and the container that held buttons is empty.
C19_Witness ==
  /\ TotalPagesNow = 1
  /\ ToNumber(pager.currentPage) > 1
  /\ table.buttons = <<>>

-----------------------------------------------------------------------------
(* Paginator and PaginationButtons *)

\* value || fallback
Or(value, fallback) == IF Truthy(value) THEN value ELSE fallback

\* obj.name of an options object given as a record; undefined when absent
Option(obj, name) == IF name \in DOMAIN obj THEN obj[name] ELSE Undefined

\* Mutant: an option that was given is kept, whatever its value.
MergedOptions_KeepsGiven(given) ==
  LET Kept(name, fallback) == IF name \in DOMAIN given THEN given[name] ELSE fallback
  IN [onEachSide |-> Kept("onEachSide", Num(1)),
      onEnds |-> Kept("onEnds", Num(1)),
      ellipsis |-> Kept("ellipsis", Bool(TRUE)),
      firstLastButtons |-> Kept("firstLastButtons", Bool(TRUE)),
      prevNextButtons |-> Kept("prevNextButtons", Bool(TRUE))]

\* The merge of the button options with their defaults, as both constructors
\* do it.
MergedOptions(given) ==
  [onEachSide |-> Or(Option(given, "onEachSide"), Num(1)),
   onEnds |-> Or(Option(given, "onEnds"), Num(1)),
   ellipsis |-> Or(Option(given, "ellipsis"), Bool(TRUE)),
   firstLastButtons |-> Or(Option(given, "firstLastButtons"), Bool(TRUE)),
   prevNextButtons |-> Or(Option(given, "prevNextButtons"), Bool(TRUE))]

\* new Paginator(results, headers, params, optionalParams)
Paginator_new(results, headers, params, optionalParams) ==
  [results |-> results,
   headers |-> headers,
   params |-> [page |-> Or(Option(params, "page"), Num(1)),
               limit |-> Or(Option(params, "limit"), Num(10))],
   optionalParams |-> MergedOptions(optionalParams),
   count |-> Len(results)]

\* new PaginationButtons(paginator, params)
PaginationButtons_new(this, params) ==
  [paginator |-> this, params |-> MergedOptions(params)]

Token(name) ==
  CASE name = "first" -> <<"f", "i", "r", "s", "t">>
    [] name = "next" -> <<"n", "e", "x", "t">>
    [] name = "prev" -> <<"p", "r", "e", "v">>
    [] name = "last" -> <<"l", "a", "s", "t">>
    [] name = "..." -> <<".", ".", ".">>

\* for (let i = from; i <= to; i++) if (i is kept) buttons.push(i.toString())
PageTokens(from, to, keep) ==
  LET all == [k \in 1..Max(0, to - from + 1) |-> from + k - 1]
      Kept(i) == i \in keep
      kept == SelectSeq(all, Kept)
  IN [k \in 1..Len(kept) |-> NatToString(kept[k])]

\* PaginationButtons.generate
PaginationButtons_generate(this) ==
  LET totalPages == Ceil(this.paginator.count, this.paginator.params.limit.n)
      currentPage == this.paginator.params.page.n
      onEachSide == this.params.onEachSide.n
      onEnds == this.params.onEnds.n
      startPage == Max(1, currentPage - onEachSide)
      endPage == Min(totalPages, currentPage + onEachSide)
      AboveOne == {i \in (startPage - onEnds)..(startPage - 1) : i > 1}
      BelowLast == {i \in (endPage + 1)..(endPage + onEnds) : i < totalPages}
      EveryPage == startPage..endPage
      first == IF Truthy(this.params.firstLastButtons) /\ currentPage > 1
               THEN <<Token("first"), Token("next")>> ELSE <<>>
      leading == IF Truthy(this.params.ellipsis) /\ currentPage > onEachSide
                 THEN Append(PageTokens(startPage - onEnds, startPage - 1, AboveOne),
                             Token("..."))
                 ELSE <<>>
      window == PageTokens(startPage, endPage, EveryPage)
      trailing == IF Truthy(this.params.ellipsis) /\ currentPage < totalPages - onEachSide
                  THEN <<Token("...")>> \o PageTokens(endPage + 1, endPage + onEnds, BelowLast)
                  ELSE <<>>
      last == IF Truthy(this.params.firstLastButtons) /\ currentPage < totalPages
              THEN <<Token("prev"), Token("last")>> ELSE <<>>
  IN first \o leading \o window \o trailing \o last

\* Paginator.paginate
Paginator_paginate(this) ==
  LET page == this.params.page.n
      limit == this.params.limit.n
      startIndex == (page - 1) * limit
      endIndex == Min(startIndex + limit, this.count)
  IN [page |-> Num(page),
      limit |-> Num(limit),
      count |-> this.count,
      next |-> IF endIndex < this.count THEN Num(page + 1) ELSE Null,
      previous |-> IF startIndex > 0 THEN Num(page - 1) ELSE Null,
      results |-> slice(this.results, Num(startIndex), Num(endIndex)),
      headers |-> this.headers,
      totalPages |-> Ceil(this.count, limit),
      buttons |-> PaginationButtons_generate(
                    PaginationButtons_new(this, this.optionalParams))]

-----------------------------------------------------------------------------
(* Inputs of the Paginator *)

\* params: page and limit, given or omitted
PaginatorParams ==
  {[page |-> Num(p)] : p \in 1..MaxCount}
    \cup {[page |-> Num(p), limit |-> Num(1)] : p \in 1..MaxCount}
    \cup {[limit |-> Num(2)], [x \in {} |-> Undefined]}

\* optionalParams: omitted, or with some options set
NoOptions == [x \in {} |-> Undefined]

OptionalParams ==
  {NoOptions}
    \cup {[onEachSide |-> Num(e), onEnds |-> Num(d)] : e \in 0..2, d \in 0..2}
    \cup {[ellipsis |-> Bool(FALSE)], [firstLastButtons |-> Bool(FALSE)],
          [prevNextButtons |-> Bool(FALSE)],
          [ellipsis |-> Bool(TRUE), firstLastButtons |-> Bool(TRUE),
           prevNextButtons |-> Bool(TRUE)]}

-----------------------------------------------------------------------------
(* The Paginator as a state machine: constructed, then paginate() *)

BInit ==
  /\ DataCache_instance = 0
  /\ caches = <<>>
  /\ fetchers = <<>>
  /\ calls = <<>>
  /\ q_data = ArrayData(<<>>)
  /\ q_params = <<>>
  /\ q_result = NoResult
  /\ q_pc = "off"
  /\ csv_response = NoResult
  /\ csv_parsed = NoResult
  /\ table = NoResult
  /\ pager = NoResult
  /\ pending = <<>>
  /\ \E n \in 0..MaxCount : \E params \in PaginatorParams :
       \E optionalParams \in OptionalParams :
         /\ paginator = Paginator_new(SourceRows(n), <<"a">>, params, optionalParams)
         /\ paginator_args = [params |-> params, optionalParams |-> optionalParams]
  /\ paginated = NoResult
  /\ renderer = NoResult
  /\ planned = NoResult

Paginate ==
  /\ paginated = NoResult
  /\ paginated' = Paginator_paginate(paginator)
  /\ UNCHANGED <<paginator, paginator_args, renderer, planned, pvars, qvars, cvars, gvars>>

BNext == Paginate

SpecPaginator == BInit /\ [][BNext]_vars

-----------------------------------------------------------------------------
Paginated == paginated # NoResult

(* C20 as stated: PaginationButtons.generate returns an empty token         *)
(* sequence when there is at most one page; for page 1 of 1 total page with *)
(* default options the result is the empty sequence.                        *)
C20_NoTokensForOnePage_AsStated ==
  (Paginated /\ paginated.totalPages <= 1 /\ paginated.page = Num(1))
    => paginated.buttons = <<>>

-----------------------------------------------------------------------------
(* getPaginationButtons as a state machine: a PaginationRenderer with some  *)
(* currentPage and totalPages, then getPaginationButtons()                  *)

NInit ==
  /\ DataCache_instance = 0
  /\ caches = <<>>
  /\ fetchers = <<>>
  /\ calls = <<>>
  /\ q_data = ArrayData(<<>>)
  /\ q_params = <<>>
  /\ q_result = NoResult
  /\ q_pc = "off"
  /\ csv_response = NoResult
  /\ csv_parsed = NoResult
  /\ table = NoResult
  /\ pager = NoResult
  /\ pending = <<>>
  /\ paginator = NoResult
  /\ paginated = NoResult
  /\ paginator_args = NoResult
  /\ \E currentPage \in 1..MaxTotalPages : \E totalPages \in 0..MaxTotalPages :
       renderer = [currentPage |-> Num(currentPage), totalPages |-> totalPages]
  /\ planned = NoResult

GetPaginationButtons ==
  /\ planned = NoResult
  /\ planned' = [buttons |-> getPaginationButtons(renderer.currentPage,
                                                   renderer.totalPages)]
  /\ UNCHANGED <<paginator, paginated, paginator_args, renderer, pvars, qvars, cvars, gvars>>

NNext == GetPaginationButtons

SpecButtons == NInit /\ [][NNext]_vars

-----------------------------------------------------------------------------
(* Vocabulary of the claims about getPaginationButtons *)

Planned == planned # NoResult

\* currentPage in 1..totalPages
InRange == renderer.currentPage.n \in 1..renderer.totalPages

IsEllipsis(button) == button.text = Str(Chars("..."))

IsNamed(button) ==
  button.text \in {Str(Chars("First")), Str(Chars("Prev")),
                   Str(Chars("Next")), Str(Chars("Last"))}

IsNumeric(button) == ~IsEllipsis(button) /\ ~IsNamed(button)

\* The page number a numeric token shows
Shown(button) ==
  IF button.text.t = "num" THEN button.text.n
  ELSE CHOOSE n \in 0..(MaxTotalPages + 1) : button.text = Str(NatToString(n))

\* The positions of the numeric tokens, and of the token of the current page
NumericAt == {k \in 1..Len(planned.buttons) : IsNumeric(planned.buttons[k])}
EllipsisAt == {k \in 1..Len(planned.buttons) : IsEllipsis(planned.buttons[k])}
CurrentAt == {k \in NumericAt : Shown(planned.buttons[k]) = renderer.currentPage.n}

(* C21: for totalPages >= 2 and currentPage in 1..totalPages the numeric    *)
(* tokens of getPaginationButtons are strictly increasing in order of       *)
(* appearance, and at most one ellipsis stands before the central window    *)
(* and at most one after it.                                                *)
C21_NumbersIncreaseOneEllipsisPerSide ==
  (Planned /\ renderer.totalPages >= 2 /\ InRange) =>
    /\ \A j, k \in NumericAt :
         j < k => Shown(planned.buttons[j]) < Shown(planned.buttons[k])
    /\ \A c \in CurrentAt :
         /\ Cardinality({k \in EllipsisAt : k < c}) <= 1
         /\ Cardinality({k \in EllipsisAt : k > c}) <= 1
    /\ CurrentAt # {}

\* C21 witness: a plan with an ellipsis on each side of the window.
C21_Witness ==
  /\ Planned /\ renderer.totalPages >= 2 /\ InRange
  /\ \E c \in CurrentAt : \E j, k \in EllipsisAt : j < c /\ c < k

\* A button with this text is in the plan; one with this text and target
HasNamed(name) ==
  \E k \in 1..Len(planned.buttons) : planned.buttons[k].text = Str(Chars(name))

HasControl(name, page) ==
  \E k \in 1..Len(planned.buttons) :
    /\ planned.buttons[k].text = Str(Chars(name))
    /\ planned.buttons[k].page = Num(page)

(* C22: for currentPage in 1..totalPages, getPaginationButtons has a First  *)
(* token (target 1) and a Prev token (target currentPage - 1) if and only   *)
(* if currentPage > 1, a Next token (target currentPage + 1) and a Last     *)
(* token (target totalPages) if and only if currentPage < totalPages, and   *)
(* every named control's target lies in 1..totalPages.                      *)
C22_NamedControlsOffTheBoundary ==
  (Planned /\ InRange) =>
    LET cur == renderer.currentPage.n
        totalPages == renderer.totalPages
    IN /\ IF cur > 1
          THEN HasControl("First", 1) /\ HasControl("Prev", cur - 1)
          ELSE ~HasNamed("First") /\ ~HasNamed("Prev")
       /\ IF cur < totalPages
          THEN HasControl("Next", cur + 1) /\ HasControl("Last", totalPages)
          ELSE ~HasNamed("Next") /\ ~HasNamed("Last")
       /\ \A k \in 1..Len(planned.buttons) :
            IsNamed(planned.buttons[k]) =>
              /\ planned.buttons[k].page.t = "num"
              /\ planned.buttons[k].page.n \in 1..totalPages

\* C22 witness: on the last of several pages First and Prev are there, Next
\* and Last are not.
C22_Witness ==
  /\ Planned /\ InRange
  /\ renderer.totalPages >= 2
  /\ renderer.currentPage.n = renderer.totalPages
  /\ HasControl("Prev", renderer.totalPages - 1)
  /\ ~HasNamed("Next")

-----------------------------------------------------------------------------
(* Vocabulary of the claims about PaginationButtons.generate *)

\* The token is in the sequence paginate() returned as buttons
HasToken(token) == \E k \in 1..Len(paginated.buttons) : paginated.buttons[k] = token

(* C23 as stated: the token sequence of PaginationButtons.generate has no   *)
(* "prev" and no "first" token when currentPage = 1, and no "next" and no   *)
(* "last" token when currentPage = totalPages, for every totalPages >= 1.   *)
C23_NoControlAtItsBoundary_AsStated ==
  (Paginated /\ paginated.totalPages >= 1) =>
    /\ paginated.page = Num(1) =>
         ~HasToken(Token("prev")) /\ ~HasToken(Token("first"))
    /\ paginated.page = Num(paginated.totalPages) =>
         ~HasToken(Token("next")) /\ ~HasToken(Token("last"))

\* The positions of a token in the sequence paginate() returned as buttons
TokenAt(token) == {k \in 1..Len(paginated.buttons) : paginated.buttons[k] = token}

\* The tokens of `wanted` occur in `tokens` in that order.
RECURSIVE InOrder(_, _)
InOrder(wanted, tokens) ==
  IF wanted = <<>> THEN TRUE
  ELSE IF tokens = <<>> THEN FALSE
  ELSE IF Head(wanted) = Head(tokens) THEN InOrder(Tail(wanted), Tail(tokens))
  ELSE InOrder(wanted, Tail(tokens))

(* C24 as stated: for page 5 of 10 pages with onEachSide 1 and onEnds 1,    *)
(* PaginationButtons.generate returns a sequence that contains 1, "...",    *)
(* 4, 5, 6, "...", 10 in that order; in general, whenever the central       *)
(* window starts after page 2, page 1 is among the numeric tokens before    *)
(* the leading ellipsis, and whenever it ends before totalPages - 1, page   *)
(* totalPages is among the numeric tokens after the trailing ellipsis.      *)
C24_EdgesShowFirstAndLastPage_AsStated ==
  (Paginated /\ paginated.page.n \in 1..paginated.totalPages) =>
    LET currentPage == paginated.page.n
        totalPages == paginated.totalPages
        onEachSide == paginator.optionalParams.onEachSide.n
        onEnds == paginator.optionalParams.onEnds.n
        startPage == Max(1, currentPage - onEachSide)
        endPage == Min(totalPages, currentPage + onEachSide)
    IN /\ (currentPage = 5 /\ totalPages = 10 /\ onEachSide = 1 /\ onEnds = 1) =>
            InOrder(<< NatToString(1), Token("..."), NatToString(4), NatToString(5),
                       NatToString(6), Token("..."), NatToString(10) >>,
                    paginated.buttons)
       /\ startPage > 2 =>
            \E j \in TokenAt(NatToString(1)) : \E k \in TokenAt(Token("...")) :
              \E w \in TokenAt(NatToString(startPage)) : j < k /\ k < w
       /\ endPage < totalPages - 1 =>
            \E w \in TokenAt(NatToString(endPage)) : \E k \in TokenAt(Token("...")) :
              \E j \in TokenAt(NatToString(totalPages)) : w < k /\ k < j

-----------------------------------------------------------------------------
\* The largest and the smallest member of a non-empty set of positions
Highest(positions) == CHOOSE k \in positions : \A j \in positions : j <= k
Lowest(positions) == CHOOSE k \in positions : \A j \in positions : k <= j

(* C25 as stated: in getPaginationButtons an ellipsis token stands for a    *)
(* gap of 2 or more unlisted pages: for every currentPage in 1..totalPages  *)
(* the numeric tokens on the two sides of each ellipsis differ by at least  *)
(* 3.                                                                       *)
C25_EllipsisHidesTwoPages_AsStated ==
  (Planned /\ InRange) =>
    \A e \in EllipsisAt :
      LET before == {k \in NumericAt : k < e}
          after == {k \in NumericAt : k > e}
      IN /\ before # {} /\ after # {}
         /\ Shown(planned.buttons[Lowest(after)])
              - Shown(planned.buttons[Highest(before)]) >= 3

\* The positions of the buttons with this text
NamedAt(name) ==
  {k \in 1..Len(planned.buttons) : planned.buttons[k].text = Str(Chars(name))}

(* C30 as stated: in the sequence returned by getPaginationButtons, for     *)
(* every currentPage in 1..totalPages, the First and Prev controls (when    *)
(* present) come before every numeric and ellipsis token, and the Next and  *)
(* Last controls (when present) come after every numeric and ellipsis       *)
(* token.                                                                   *)
C30_ControlsAroundTheNumbers_AsStated ==
  (Planned /\ InRange) =>
    \A t \in NumericAt \cup EllipsisAt :
      /\ \A c \in NamedAt("First") \cup NamedAt("Prev") : c < t
      /\ \A c \in NamedAt("Next") \cup NamedAt("Last") : t < c

-----------------------------------------------------------------------------
\* The defaults of the button options
DefaultOptions ==
  [onEachSide |-> Num(1), onEnds |-> Num(1), ellipsis |-> Bool(TRUE),
   firstLastButtons |-> Bool(TRUE), prevNextButtons |-> Bool(TRUE)]

\* Every option the Paginator was given is false, 0 or its default.
GivenFalsyOrDefault ==
  \A name \in DOMAIN paginator_args.optionalParams :
    \/ paginator_args.optionalParams[name] \in {Bool(FALSE), Num(0)}
    \/ paginator_args.optionalParams[name] = DefaultOptions[name]

\* The buttons of the same page of the same results under the defaults
ButtonsUnderDefaults ==
  Paginator_paginate(
    Paginator_new(paginator.results, paginator.headers, paginator_args.params,
                  DefaultOptions)).buttons

-----------------------------------------------------------------------------
(* Vocabulary of the claims about the pager's operations *)

\* A page value that is an integer in 1..totalPages
IsPageOf(page, totalPages) == page.t = "num" /\ page.n \in 1..totalPages

(* C27 as stated: after any click on a rendered pager button (numeric,      *)
(* First, Prev, Next, Last or ellipsis), currentPage of both the pager and  *)
(* the table is an integer with 1 <= currentPage <= totalPages; a click on  *)
(* an ellipsis button (target page null) leaves currentPage unchanged and   *)
(* triggers no query.                                                       *)
C27_Step ==
  \A b \in 1..Len(table.buttons) :
    Click(b) =>
      /\ IsPageOf(pager'.currentPage, pager'.totalPages)
      /\ IsPageOf(table'.currentPage, pager'.totalPages)
      /\ table.buttons[b].page = Null =>
           /\ pager'.currentPage = pager.currentPage
           /\ table'.currentPage = table.currentPage
           /\ pending' = pending

C27_ClicksKeepThePageInRange_AsStated == [][C27_Step]_vars

(* C28 as stated: after every pager operation (changePage and               *)
(* updateRowsPerPage, in any order) the pager's currentPage equals the      *)
(* table's currentPage; in particular after updateRowsPerPage both are 1    *)
(* and the query that follows asks for page 1 with the new limit.           *)
C28_Step ==
  /\ \A b \in 1..Len(table.buttons) :
       Click(b) => pager'.currentPage = table'.currentPage
  /\ \A rowsPerPage \in RowsPerPageValues :
       UpdateRowsPerPage(rowsPerPage) =>
         /\ pager'.currentPage = Num(1)
         /\ table'.currentPage = Num(1)
         /\ pending'[Len(pending')] =
              [params |-> << [k |-> "page", v |-> Num(1)],
                             [k |-> "limit", v |-> Num(rowsPerPage)] >>]

C28_PagerAndTableAgree_AsStated == [][C28_Step]_vars

\* The table's data is the window of its currentPage and rowsPerPage over
\* the dataset in one of its sizes.
ShowsCurrentPage(tbl) ==
  \E n \in SourceSizes :
    tbl.data = filterStaticData(ArrayData(SourceRows(n)), getData(tbl).params)

\* A query for a page number with the limit the table has now
IsPageQuery(query) ==
  /\ query.params[1].v.t = "num"
  /\ query.params[2].v = Num(table.rowsPerPage)

(* C29 as stated: when the page is changed several times before the earlier *)
(* queries complete, then once all the queries in flight have completed the *)
(* table's data is the window of the last requested page, that is of the    *)
(* table's currentPage: a query for an earlier page never overwrites the    *)
(* result of a query for a later one.  The step is the completion of the    *)
(* last query in flight, a query for a page, in a table that shows the      *)
(* window of its current page.                                              *)
C29_Step ==
  \A i \in 1..Len(pending) : \A n \in SourceSizes :
    ( /\ GetDataDone(i, n)
      /\ pending' = <<>>
      /\ IsPageQuery(pending[i])
      /\ table.currentPage.t = "num"
      /\ ShowsCurrentPage(table) )
    => ShowsCurrentPage(table')

=============================================================================
